---- MODULE Spec2Model ----
(***************************************************************************)
(* Model of sycl::detail::KernelProgramCache (the in-memory cache of built *)
(* programs and kernels) and of its get-or-build protocol.                 *)
(*                                                                         *)
(* Entries (ProgramBuildResult / KernelBuildResult objects) are numbered   *)
(* 1..MaxEntries in order of construction; a std::shared_ptr to an entry   *)
(* is the entry's number, nullptr is 0.  Native handles are numbered       *)
(* in order of creation by the build function, nullptr is 0.               *)
(***************************************************************************)
EXTENDS Integers, FiniteSets, Sequences, Bags, TLC

\* ---------------------------------------------------------------- bounds
\* Entries the model lets the cache construct; an insertion that needs one
\* more does not happen.
MaxEntries == 3

\* ------------------------------------------------------ program constants
MaxAttempts == 2

\* The threads that call getOrBuild, once each: two of them in most
\* specifications, the third where three are needed.
TwoThreads == {"t1", "t2"}
Threads == TwoThreads \cup {"t3"}
\* The threads that call the cache's other public operations.
Clients == {"c1", "c2"}
Actors == Threads \cup Clients
NoOwner == "nobody"
\* The three structural mutexes.
MProgramCacheMutex == "MProgramCacheMutex"
MKernelsPerProgramCacheMutex == "MKernelsPerProgramCacheMutex"
MKernelFastCacheMutex == "MKernelFastCacheMutex"
Mutexes == {MProgramCacheMutex, MKernelsPerProgramCacheMutex, MKernelFastCacheMutex}
Entries == 1..MaxEntries
\* A successful build creates one handle, and a call builds successfully at
\* most once.
Handles == 1..Cardinality(TwoThreads)
NullPtr == 0

BS_Initial == "BS_Initial"
BS_InProgress == "BS_InProgress"
BS_Done == "BS_Done"
BS_Failed == "BS_Failed"
BuildState == {BS_Initial, BS_InProgress, BS_Done, BS_Failed}

\* ------------------------------------------------------------------ keys
SerializedObjs == {"sc1", "sc2"}
ImageIds == {"img1"}
DeviceSets == {{"dev1"}}
KernelNames == {"k1"}

\* ProgramCacheKeyT: ((spec constants, image id), device set)
ProgramCacheKeyT == [spec : SerializedObjs, img : ImageIds, devs : DeviceSets]

\* CommonProgramKeyT: (image id, device set)
CommonKey(CacheKey) == [img |-> CacheKey.img, devs |-> CacheKey.devs]

\* What a getOrBuild caller's GetCachedBuild fetches from: the program cache
\* by key, or the kernel cache by (program handle, kernel name).
ProgramTargets == [kind : {"program"}, key : ProgramCacheKeyT]
KernelTargets == [kind : {"kernel"}, prog : Handles, name : KernelNames]
Targets == ProgramTargets \cup KernelTargets
NoTarget == [kind |-> "none"]

\* ------------------------------------------------------------ exceptions
UR_RESULT_SUCCESS == "UR_RESULT_SUCCESS"
UR_RESULT_ERROR_PROGRAM_BUILD_FAILURE == "UR_RESULT_ERROR_PROGRAM_BUILD_FAILURE"
UR_RESULT_ERROR_OUT_OF_RESOURCES == "UR_RESULT_ERROR_OUT_OF_RESOURCES"
UR_RESULT_ERROR_OUT_OF_HOST_MEMORY == "UR_RESULT_ERROR_OUT_OF_HOST_MEMORY"
UR_RESULT_ERROR_OUT_OF_DEVICE_MEMORY == "UR_RESULT_ERROR_OUT_OF_DEVICE_MEMORY"
UrCodes == {UR_RESULT_SUCCESS, UR_RESULT_ERROR_PROGRAM_BUILD_FAILURE,
            UR_RESULT_ERROR_OUT_OF_RESOURCES, UR_RESULT_ERROR_OUT_OF_HOST_MEMORY,
            UR_RESULT_ERROR_OUT_OF_DEVICE_MEMORY}
\* A sycl::exception thrown by the build function: its error code (errc),
\* what() and the UR error attached to it (detail::get_ur_error).
SyclException(Errc, Msg, Code) == [kind |-> "sycl", errc |-> Errc, msg |-> Msg, code |-> Code]

\* The failures the build function is made to raise: two ordinary build
\* failures (one with an empty what()), and two that the handler takes for
\* resource exhaustion, one by its errc and one by its UR error.
BuildFailures ==
    { SyclException("build", "m1", UR_RESULT_ERROR_PROGRAM_BUILD_FAILURE),
      SyclException("build", "", UR_RESULT_ERROR_PROGRAM_BUILD_FAILURE),
      SyclException("memory_allocation", "m2", UR_RESULT_SUCCESS),
      SyclException("build", "m2", UR_RESULT_ERROR_OUT_OF_RESOURCES) }

\* Anything else the build function throws (caught by catch (...)).
OtherException == [kind |-> "other", errc |-> "none", msg |-> "", code |-> UR_RESULT_SUCCESS]
NoException == [kind |-> "nothing", errc |-> "none", msg |-> "", code |-> UR_RESULT_SUCCESS]

\* exception(make_error_code(Errc), Msg) with the UR error Code set on it,
\* Errc being getOrBuild's template argument.
ReplayedException(Msg, Code) == [kind |-> "sycl", errc |-> "Errc", msg |-> Msg, code |-> Code]
\* The default-constructed sycl::exception().
DefaultException == [kind |-> "sycl", errc |-> "success", msg |-> "", code |-> UR_RESULT_SUCCESS]

\* BuildError::isFilledIn
isFilledIn(Msg) == Msg # ""

\* The condition under which getOrBuild's handler resets the cache.
IsResourceExhaustion(Ex) ==
    \/ Ex.errc = "memory_allocation"
    \/ Ex.code = UR_RESULT_ERROR_OUT_OF_RESOURCES
    \/ Ex.code = UR_RESULT_ERROR_OUT_OF_HOST_MEMORY
    \/ Ex.code = UR_RESULT_ERROR_OUT_OF_DEVICE_MEMORY

\* ----------------------------------------------------------------- state
VARIABLES
    Cache,                   \* MCachedPrograms.Cache: key -> entry
    KeyMap,                  \* MCachedPrograms.KeyMap: bag of <<common key, key>>
    MKernelsPerProgramCache, \* program handle -> (kernel name -> entry)
    MKernelFastCache,        \* fast key -> fast value
    State,                   \* BuildResult::State of every entry
    Val,                     \* BuildResult::Val (the native handle) of every entry
    ErrorMsg,                \* BuildResult::Error.Msg of every entry
    ErrorCode,               \* BuildResult::Error.Code of every entry
    numEntries,              \* entries constructed so far
    destroyed,               \* entries whose destructor has run
    released,                \* adapter release calls made so far, per handle
    reported,                \* a failed release call was written to the error stream
    numHandles,              \* native handles created so far
    pc,                      \* where each thread is in getOrBuild
    target,                  \* what the thread's GetCachedBuild fetches
    AttemptCounter,          \* getOrBuild's loop counter
    BuildResult,             \* getOrBuild's Res.first
    NewState,                \* what waitUntilTransition returned last
    Ex,                      \* the exception the thread's handler caught
    outcome,                 \* how the thread's getOrBuild call ended
    nbuilds,                 \* history: Build() invocations of the call
    nfetches,                \* history: GetCachedBuild() invocations of the call
    waited,                  \* history: the call lost a claim and waited
    nresets,                 \* history: reset() calls made by the call's handler
    lastBuilt,               \* history: what the call's latest Build() returned
    before,                  \* history: entries constructed when the call's
                             \*          build last failed with resource exhaustion
    happened,                \* history: kinds of event that took place so far
    mutex,                   \* the owner of each structural mutex
    call,                    \* each client's current or latest operation, its
                             \*   arguments and what it returned
    issued,                  \* history: per key, what the getOrInsert calls
                             \*   returned since the container was last cleared
    prebuilt                 \* history: entries made by insertBuiltProgram

cacheVars == <<Cache, KeyMap, MKernelsPerProgramCache, MKernelFastCache>>
entryVars == <<State, Val, ErrorMsg, ErrorCode>>
lifeVars == <<destroyed, released, reported>>
localVars == <<target, AttemptCounter, BuildResult, NewState, Ex, outcome>>
histVars == <<nbuilds, nfetches, waited, nresets, lastBuilt, before, happened>>
apiVars == <<mutex, call, issued, prebuilt>>
vars == <<cacheVars, entryVars, numEntries, lifeVars, numHandles, pc, localVars,
          histVars, apiVars>>

EmptyMap == <<>>

\* KernelFastCacheKeyT (spec constants, device, kernel name) and
\* KernelFastCacheValT (kernel handle, .., program handle); the mutex and
\* argument-mask pointers of the value are carried along unread.
KernelFastCacheKeyT == [spec : {"sc1"}, dev : {"dev1"}, name : KernelNames]
KernelFastCacheValT == [kernel : Handles, prog : Handles]
\* std::make_tuple(nullptr, nullptr, nullptr, nullptr)
AbsentVal == [kernel |-> NullPtr, prog |-> NullPtr]

\* How a getOrBuild call ended: the pointer it returned or the exception it
\* raised, and for the record whether the call ended as the builder or as a
\* waiter, and on which entry.
NoOutcome == [kind |-> "none", entry |-> NullPtr, ex |-> NoException,
              role |-> "none", on |-> NullPtr]
Returned(e, role) == [kind |-> "returned", entry |-> e, ex |-> NoException,
                      role |-> role, on |-> e]
Raised(x, role, e) == [kind |-> "raised", entry |-> NullPtr, ex |-> x,
                       role |-> role, on |-> e]

\* A client's operation: its name, its arguments, and what it returned (the
\* entry pointer, the DidInsert flag, the fast-cache value).
NoArg == [none |-> TRUE]
NoCall == [op |-> "none", arg |-> NoArg, It |-> NullPtr, DidInsert |-> FALSE,
           Res |-> AbsentVal]
\* The keys of the program cache and of the kernel cache.
KernelKeys == [prog : Handles, name : KernelNames]
StructuralKeys == ProgramCacheKeyT \cup KernelKeys
\* What the getOrInsert calls for one key returned: the entries, how many
\* calls reported an insertion, and what the first call reported.
NothingIssued == [entries |-> {}, inserts |-> 0, first |-> "none"]

Init ==
    /\ Cache = EmptyMap
    /\ KeyMap = EmptyBag
    /\ MKernelsPerProgramCache = EmptyMap
    /\ MKernelFastCache = EmptyMap
    /\ State = [e \in Entries |-> BS_Initial]
    /\ Val = [e \in Entries |-> NullPtr]
    /\ ErrorMsg = [e \in Entries |-> ""]
    /\ ErrorCode = [e \in Entries |-> UR_RESULT_SUCCESS]
    /\ numEntries = 0
    /\ destroyed = {}
    /\ released = [h \in Handles |-> 0]
    /\ reported = FALSE
    /\ numHandles = 0
    /\ pc = [a \in Actors |-> "idle"]
    /\ target = [t \in Threads |-> NoTarget]
    /\ AttemptCounter = [t \in Threads |-> 0]
    /\ BuildResult = [t \in Threads |-> NullPtr]
    /\ NewState = [t \in Threads |-> BS_Initial]
    /\ Ex = [t \in Threads |-> NoException]
    /\ outcome = [t \in Threads |-> NoOutcome]
    /\ nbuilds = [t \in Threads |-> 0]
    /\ nfetches = [t \in Threads |-> 0]
    /\ waited = [t \in Threads |-> FALSE]
    /\ nresets = [t \in Threads |-> 0]
    /\ lastBuilt = [t \in Threads |-> NullPtr]
    /\ before = [t \in Threads |-> 0]
    /\ happened = {}
    /\ mutex = [m \in Mutexes |-> NoOwner]
    /\ call = [c \in Clients |-> NoCall]
    /\ issued = [k \in StructuralKeys |-> NothingIssued]
    /\ prebuilt = {}

\* ------------------------------------------------- BuildResult<T> methods
\* The constructors: ProgramBuildResult(Adapter) and KernelBuildResult(Adapter)
\* leave State = BS_Initial, Val = nullptr, Error = {"", 0};
\* ProgramBuildResult(Adapter, InitialState) stores InitialState.
Construct(e, InitialState, InitialVal) ==
    /\ State' = [State EXCEPT ![e] = InitialState]
    /\ Val' = [Val EXCEPT ![e] = InitialVal]
    /\ ErrorMsg' = [ErrorMsg EXCEPT ![e] = ""]
    /\ ErrorCode' = [ErrorCode EXCEPT ![e] = UR_RESULT_SUCCESS]

\* State.compare_exchange_strong(Expected, Desired): whether it succeeds.
compare_exchange_strong_AlsoFromDone(e, Expected) == State[e] \in {Expected, BS_Done}
compare_exchange_strong_UnlessInProgress(e, Expected) == State[e] # BS_InProgress
compare_exchange_strong_AlwaysSucceeds(e, Expected) == TRUE
compare_exchange_strong(e, Expected) == State[e] = Expected

\* waitUntilTransition(From): the wait's predicate, State != From.
TransitionSeen(e, From) == State[e] # From

\* updateAndNotify(DesiredState): the states of all entries after the store;
\* the waiters it wakes are those whose predicate the store makes true.
updateAndNotify_StoresNothing(e, DesiredState) == State
updateAndNotify(e, DesiredState) == [State EXCEPT ![e] = DesiredState]

DestructorReleases_Never(v) == {}

\* ~ProgramBuildResult / ~KernelBuildResult: the handles the destructor of an
\* entry holding handle v releases through the adapter.
DestructorReleases(v) == IF v # NullPtr THEN {v} ELSE {}

\* What the adapter's release call can return: success, or a failure.
ReleaseResults == {UR_RESULT_SUCCESS, UR_RESULT_ERROR_OUT_OF_RESOURCES}

\* __SYCL_CHECK_UR_CODE_NO_EXC(Err): a result that is not success is written
\* to the error stream, and nothing is thrown.
CheckNoExc(Err) == Err # UR_RESULT_SUCCESS

\* The entries some std::shared_ptr points to: the caches' slots, the
\* threads' Res.first, the pointers getOrBuild returned to its callers and
\* the pointers getOrInsertProgram / getOrInsertKernel returned to clients.
Referenced ==
    ( {Cache[k] : k \in DOMAIN Cache}
      \cup UNION {{MKernelsPerProgramCache[p][n] : n \in DOMAIN MKernelsPerProgramCache[p]} :
                     p \in DOMAIN MKernelsPerProgramCache}
      \cup {BuildResult[t] : t \in Threads}
      \cup {outcome[t].entry : t \in Threads}
      \cup {call[c].It : c \in Clients} ) \ {NullPtr}

\* The entries in the program and kernel caches.
CachedEntries ==
    {Cache[k] : k \in DOMAIN Cache}
    \cup UNION {{MKernelsPerProgramCache[p][n] : n \in DOMAIN MKernelsPerProgramCache[p]} :
                   p \in DOMAIN MKernelsPerProgramCache}

\* The end of a step that drops pointers: S, V, M, C are the entries' fields
\* after the step's stores; every entry left with no pointer to it is
\* destroyed, which releases its handle, and its storage is gone.
DropPointers(S, V, M, C) ==
    LET dead == {e \in 1..numEntries : e \notin destroyed /\ e \notin Referenced'}
    IN  /\ destroyed' = destroyed \cup dead
        /\ released' = [h \in Handles |->
               released[h] + Cardinality({e \in dead : h \in DestructorReleases(V[e])})]
        /\ \E Err \in ReleaseResults :
              reported' = (reported \/ (CheckNoExc(Err) /\
                              \E e \in dead : DestructorReleases(V[e]) # {}))
        /\ State' = [e \in Entries |-> IF e \in dead THEN BS_Initial ELSE S[e]]
        /\ Val' = [e \in Entries |-> IF e \in dead THEN NullPtr ELSE V[e]]
        /\ ErrorMsg' = [e \in Entries |-> IF e \in dead THEN "" ELSE M[e]]
        /\ ErrorCode' = [e \in Entries |-> IF e \in dead THEN UR_RESULT_SUCCESS ELSE C[e]]

\* ------------------------------------------------------ structural caches
\* getOrInsertProgram(CacheKey) returning (It->second, DidInsert).
getOrInsertProgram_AlwaysInserts(CacheKey, It, DidInsert) ==
    /\ DidInsert = TRUE
    /\ numEntries < MaxEntries
    /\ It = numEntries + 1
    /\ numEntries' = numEntries + 1
    /\ Construct(It, BS_Initial, NullPtr)
    /\ Cache' = [k \in DOMAIN Cache \cup {CacheKey} |->
                    IF k = CacheKey THEN It ELSE Cache[k]]
    /\ KeyMap' = KeyMap (+) SetToBag({<<CommonKey(CacheKey), CacheKey>>})
getOrInsertProgram(CacheKey, It, DidInsert) ==
    /\ DidInsert = (CacheKey \notin DOMAIN Cache)
    /\ IF DidInsert
       THEN /\ numEntries < MaxEntries
            /\ It = numEntries + 1
            /\ numEntries' = numEntries + 1
            /\ Construct(It, BS_Initial, NullPtr)
            /\ Cache' = Cache @@ (CacheKey :> It)
            /\ KeyMap' = KeyMap (+) SetToBag({<<CommonKey(CacheKey), CacheKey>>})
       ELSE /\ It = Cache[CacheKey]
            /\ UNCHANGED <<Cache, KeyMap, numEntries, entryVars>>

\* insertBuiltProgram(CacheKey, Program) returning DidInsert.
insertBuiltProgram(CacheKey, Program, DidInsert) ==
    /\ DidInsert = (CacheKey \notin DOMAIN Cache)
    /\ IF DidInsert
       THEN /\ numEntries < MaxEntries
            /\ numEntries' = numEntries + 1
            /\ Construct(numEntries + 1, BS_Done, Program)
            /\ Cache' = Cache @@ (CacheKey :> (numEntries + 1))
            /\ KeyMap' = KeyMap (+) SetToBag({<<CommonKey(CacheKey), CacheKey>>})
       ELSE UNCHANGED <<Cache, KeyMap, numEntries, entryVars>>

getOrInsertKernel_IgnoresProgram(Program, KernelName, It, DidInsert) ==
    LET Known == UNION {{MKernelsPerProgramCache[p][n] :
                            n \in DOMAIN MKernelsPerProgramCache[p] \cap {KernelName}} :
                        p \in DOMAIN MKernelsPerProgramCache}
    IN  /\ DidInsert = (Known = {})
        /\ IF DidInsert
           THEN /\ numEntries < MaxEntries
                /\ It = numEntries + 1
                /\ numEntries' = numEntries + 1
                /\ Construct(It, BS_Initial, NullPtr)
                /\ MKernelsPerProgramCache' =
                       [p \in DOMAIN MKernelsPerProgramCache \cup {Program} |->
                           IF p = Program THEN (KernelName :> It)
                           ELSE MKernelsPerProgramCache[p]]
           ELSE /\ It \in Known
                /\ UNCHANGED <<MKernelsPerProgramCache, numEntries, entryVars>>

\* getOrInsertKernel(Program, KernelName) returning (It->second, DidInsert);
\* LockedCache.get()[Program] creates the inner map when it is missing.
getOrInsertKernel(Program, KernelName, It, DidInsert) ==
    LET Inner == IF Program \in DOMAIN MKernelsPerProgramCache
                 THEN MKernelsPerProgramCache[Program] ELSE EmptyMap
    IN  /\ DidInsert = (KernelName \notin DOMAIN Inner)
        /\ IF DidInsert
           THEN /\ numEntries < MaxEntries
                /\ It = numEntries + 1
                /\ numEntries' = numEntries + 1
                /\ Construct(It, BS_Initial, NullPtr)
                /\ MKernelsPerProgramCache' =
                       [p \in DOMAIN MKernelsPerProgramCache \cup {Program} |->
                           IF p = Program THEN Inner @@ (KernelName :> It)
                           ELSE MKernelsPerProgramCache[p]]
           ELSE /\ It = Inner[KernelName]
                /\ MKernelsPerProgramCache' =
                       [p \in DOMAIN MKernelsPerProgramCache \cup {Program} |->
                           IF p = Program THEN Inner ELSE MKernelsPerProgramCache[p]]
                /\ UNCHANGED <<numEntries, entryVars>>

saveKernel_Overwrites(CacheKey, CacheVal) ==
    MKernelFastCache' = [k \in DOMAIN MKernelFastCache \cup {CacheKey} |->
                            IF k = CacheKey THEN CacheVal ELSE MKernelFastCache[k]]

\* saveKernel(CacheKey, CacheVal): emplace keeps an existing mapping.
saveKernel(CacheKey, CacheVal) ==
    MKernelFastCache' = IF CacheKey \in DOMAIN MKernelFastCache
                        THEN MKernelFastCache
                        ELSE MKernelFastCache @@ (CacheKey :> CacheVal)

\* reset(): the three containers are replaced by empty ones under all
\* three mutexes.
reset_KeepsFastCache ==
    /\ Cache' = EmptyMap
    /\ KeyMap' = EmptyBag
    /\ MKernelsPerProgramCache' = EmptyMap
    /\ UNCHANGED MKernelFastCache
reset_ClearsNothing == UNCHANGED cacheVars
reset_KeepsPrograms ==
    /\ UNCHANGED <<Cache, KeyMap>>
    /\ MKernelsPerProgramCache' = EmptyMap
    /\ MKernelFastCache' = EmptyMap
reset ==
    /\ Cache' = EmptyMap
    /\ KeyMap' = EmptyBag
    /\ MKernelsPerProgramCache' = EmptyMap
    /\ MKernelFastCache' = EmptyMap

\* ------------------------------------------------------------ getOrBuild
Inc(f, t) == [f EXCEPT ![t] = @ + 1]
Goto(t, label) == pc' = [pc EXCEPT ![t] = label]
\* Res goes out of scope: the thread's pointer to its entry is dropped.
Forget(t) == BuildResult' = [BuildResult EXCEPT ![t] = NullPtr]

\* The positions inside waitUntilTransition at which the thread owns the
\* entry's MBuildResultMutex: while it evaluates the wait's predicate.
PredicateSteps == {"pred", "test"}

MBuildResultMutexFree_Always(e) == TRUE

\* Nobody owns the MBuildResultMutex of entry e.
MBuildResultMutexFree(e) ==
    \A u \in Threads : ~(pc[u] \in PredicateSteps /\ BuildResult[u] = e)

notify_all_WakesEverybody(t, e, label) ==
    pc' = [u \in DOMAIN pc |->
              IF u = t THEN label ELSE IF pc[u] = "asleep" THEN "wait" ELSE pc[u]]
notify_all_WakesNobody(t, e, label) == pc' = [pc EXCEPT ![t] = label]

\* updateAndNotify, after the store: MBuildCV.notify_all() makes every thread
\* blocked on entry e's condition variable contend for the mutex again, and
\* thread t goes on at label.
notify_all(t, e, label) ==
    pc' = [u \in DOMAIN pc |->
              IF u = t THEN label
              ELSE IF pc[u] = "asleep" /\ BuildResult[u] = e THEN "wait"
              ELSE pc[u]]

\* A thread enters getOrBuild<Errc>(GetCachedBuild, Build); a kernel is
\* looked up under the handle of a program that exists.
CallFor(t, Wanted) ==
    /\ UNCHANGED apiVars
    /\ pc[t] = "idle"
    /\ \E tg \in Wanted :
          /\ tg.kind = "kernel" => tg.prog <= numHandles
          /\ target' = [target EXCEPT ![t] = tg]
    /\ AttemptCounter' = [AttemptCounter EXCEPT ![t] = 0]
    /\ Goto(t, "fetch")
    /\ UNCHANGED <<cacheVars, entryVars, numEntries, lifeVars, numHandles,
                   BuildResult, NewState, Ex, outcome, histVars>>

Call(t) == CallFor(t, Targets)

\* auto Res = GetCachedBuild(); auto &BuildResult = Res.first;
GetCachedBuild(t) ==
    /\ UNCHANGED apiVars
    /\ pc[t] = "fetch"
    /\ \E It \in Entries, DidInsert \in BOOLEAN :
          /\ \/ /\ target[t].kind = "program"
                /\ getOrInsertProgram(target[t].key, It, DidInsert)
                /\ UNCHANGED MKernelsPerProgramCache
             \/ /\ target[t].kind = "kernel"
                /\ getOrInsertKernel(target[t].prog, target[t].name, It, DidInsert)
                /\ UNCHANGED <<Cache, KeyMap>>
          /\ BuildResult' = [BuildResult EXCEPT ![t] = It]
    /\ nfetches' = Inc(nfetches, t)
    /\ Goto(t, "cas")
    /\ UNCHANGED <<MKernelFastCache, lifeVars, numHandles, target, AttemptCounter,
                   NewState, Ex, outcome, nbuilds, waited, nresets, lastBuilt,
                   before, happened>>

\* if (!BuildResult->State.compare_exchange_strong(Expected, Desired))
TryClaim(t) ==
    /\ UNCHANGED apiVars
    /\ pc[t] = "cas"
    /\ IF compare_exchange_strong(BuildResult[t], BS_Initial)
       THEN /\ State' = [State EXCEPT ![BuildResult[t]] = BS_InProgress]
            /\ nbuilds' = Inc(nbuilds, t)
            /\ Goto(t, "build")
            /\ UNCHANGED waited
       ELSE /\ waited' = [waited EXCEPT ![t] = TRUE]
            /\ Goto(t, "wait")
            /\ UNCHANGED <<State, nbuilds>>
    /\ UNCHANGED <<cacheVars, Val, ErrorMsg, ErrorCode, numEntries, lifeVars,
                   numHandles, localVars, nfetches, nresets, lastBuilt, before,
                   happened>>

\* BuildState NewState = BuildResult->waitUntilTransition();
waitUntilTransition(t) ==
    /\ UNCHANGED apiVars
    /\ pc[t] = "wait"
    /\ TransitionSeen(BuildResult[t], BS_InProgress)
    /\ NewState' = [NewState EXCEPT ![t] = State[BuildResult[t]]]
    /\ Goto(t, "woke")
    /\ UNCHANGED <<cacheVars, entryVars, numEntries, lifeVars, numHandles, target,
                   AttemptCounter, BuildResult, Ex, outcome, histVars>>

\* waitUntilTransition step by step.
\* std::unique_lock<std::mutex> Lock(MBuildResultMutex), and the lock taken
\* again by MBuildCV.wait when the thread was woken.
waitLock(t) ==
    /\ UNCHANGED apiVars
    /\ pc[t] = "wait"
    /\ MBuildResultMutexFree(BuildResult[t])
    /\ Goto(t, "pred")
    /\ UNCHANGED <<cacheVars, entryVars, numEntries, lifeVars, numHandles,
                   localVars, histVars>>

\* The predicate's first load: To = State;
waitLoadTo(t) ==
    /\ UNCHANGED apiVars
    /\ pc[t] = "pred"
    /\ NewState' = [NewState EXCEPT ![t] = State[BuildResult[t]]]
    /\ Goto(t, "test")
    /\ UNCHANGED <<cacheVars, entryVars, numEntries, lifeVars, numHandles, target,
                   AttemptCounter, BuildResult, Ex, outcome, histVars>>

\* The predicate's second load: return State != From; when it is true the
\* wait ends and To is returned, otherwise the thread gives the mutex back
\* and blocks on MBuildCV.
waitTest(t) ==
    /\ UNCHANGED apiVars
    /\ pc[t] = "test"
    /\ Goto(t, IF TransitionSeen(BuildResult[t], BS_InProgress)
               THEN "woke" ELSE "asleep")
    /\ UNCHANGED <<cacheVars, entryVars, numEntries, lifeVars, numHandles,
                   localVars, histVars>>

\* A condition variable may wake a blocked thread without a notification.
waitSpurious(t) ==
    /\ UNCHANGED apiVars
    /\ pc[t] = "asleep"
    /\ Goto(t, "wait")
    /\ UNCHANGED <<cacheVars, entryVars, numEntries, lifeVars, numHandles,
                   localVars, histVars>>

\* Whether the waiter returns the entry: if (NewState == BuildState::BS_Done).
BuildIsDone_UnlessFailed(NS) == NS # BS_Failed
BuildIsDone(NS) == NS = BS_Done

\* Whether the waiter raises: the build failed, or this is the last attempt.
WaiterGivesUp_Always(NS, Attempt) == TRUE
WaiterGivesUp_OnlyOnFailure(NS, Attempt) == NS = BS_Failed
WaiterGivesUp(NS, Attempt) == NS = BS_Failed \/ Attempt + 1 = MaxAttempts

\* What the waiter raises, from the entry's recorded error.
WaiterError(Msg, Code) ==
    IF isFilledIn(Msg) THEN ReplayedException(Msg, Code) ELSE DefaultException

\* if (NewState == BuildState::BS_Done) return BuildResult;
WaiterReturn(t) ==
    /\ UNCHANGED apiVars
    /\ pc[t] = "woke"
    /\ BuildIsDone(NewState[t])
    /\ outcome' = [outcome EXCEPT ![t] = Returned(BuildResult[t], "waiter")]
    /\ Forget(t)
    /\ Goto(t, "done")
    /\ UNCHANGED <<cacheVars, entryVars, numEntries, lifeVars, numHandles, target,
                   AttemptCounter, NewState, Ex, histVars>>

\* if (NewState == BS_Failed || AttemptCounter + 1 == MaxAttempts) throw ...
WaiterThrow(t) ==
    /\ UNCHANGED apiVars
    /\ pc[t] = "woke"
    /\ ~BuildIsDone(NewState[t])
    /\ WaiterGivesUp(NewState[t], AttemptCounter[t])
    /\ outcome' = [outcome EXCEPT ![t] =
           Raised(WaiterError(ErrorMsg[BuildResult[t]], ErrorCode[BuildResult[t]]),
                  "waiter", BuildResult[t])]
    /\ Forget(t)
    /\ Goto(t, "done")
    /\ UNCHANGED <<cacheVars, numEntries, numHandles, target, AttemptCounter,
                   NewState, Ex, histVars>>
    /\ DropPointers(State, Val, ErrorMsg, ErrorCode)

\* continue;  (NewState == BS_Initial, not the last attempt)
WaiterRetry(t) ==
    /\ UNCHANGED apiVars
    /\ pc[t] = "woke"
    /\ ~BuildIsDone(NewState[t])
    /\ ~WaiterGivesUp(NewState[t], AttemptCounter[t])
    /\ AttemptCounter' = Inc(AttemptCounter, t)
    /\ Forget(t)
    /\ Goto(t, "fetch")
    /\ UNCHANGED <<cacheVars, numEntries, numHandles, target, NewState, Ex,
                   outcome, histVars>>
    /\ DropPointers(State, Val, ErrorMsg, ErrorCode)

\* BuildResult->Val = Build(); updateAndNotify(BS_Done); return BuildResult;
\* the build function returns a handle it created.
BuildSucceeds(t) ==
    /\ UNCHANGED apiVars
    /\ MBuildResultMutexFree(BuildResult[t])
    /\ pc[t] = "build"
    /\ numHandles + 1 \in Handles
    /\ numHandles' = numHandles + 1
    /\ Val' = [Val EXCEPT ![BuildResult[t]] = numHandles + 1]
    /\ State' = updateAndNotify(BuildResult[t], BS_Done)
    /\ outcome' = [outcome EXCEPT ![t] = Returned(BuildResult[t], "builder")]
    /\ Forget(t)
    /\ notify_all(t, BuildResult[t], "done")
    /\ lastBuilt' = [lastBuilt EXCEPT ![t] = numHandles + 1]
    /\ UNCHANGED <<cacheVars, ErrorMsg, ErrorCode, numEntries, lifeVars, target,
                   AttemptCounter, NewState, Ex, nbuilds, nfetches, waited,
                   nresets, before, happened>>

\* Build() throws a sycl::exception: catch (const exception &Ex) {
\*   BuildResult->Error.Msg = Ex.what();
BuildThrows(t) ==
    /\ UNCHANGED apiVars
    /\ pc[t] = "build"
    /\ \E x \in BuildFailures :
          /\ happened' = IF IsResourceExhaustion(x)
                         THEN happened \cup {"resource exhaustion"} ELSE happened
          /\ before' = IF IsResourceExhaustion(x)
                       THEN [before EXCEPT ![t] = numEntries]
                       ELSE before
          /\ Ex' = [Ex EXCEPT ![t] = x]
          /\ ErrorMsg' = [ErrorMsg EXCEPT ![BuildResult[t]] = x.msg]
    /\ lastBuilt' = [lastBuilt EXCEPT ![t] = NullPtr]
    /\ Goto(t, "caught")
    /\ UNCHANGED <<cacheVars, State, Val, ErrorCode, numEntries, lifeVars,
                   numHandles, target, AttemptCounter, BuildResult, NewState,
                   outcome, nbuilds, nfetches, waited, nresets>>

\*   BuildResult->Error.Code = detail::get_ur_error(Ex); if (Ex.code() == ...
RecordCode_KeepsOldCode(t) ==
    /\ UNCHANGED apiVars
    /\ pc[t] = "caught"
    /\ Goto(t, IF IsResourceExhaustion(Ex[t]) THEN "reset" ELSE "failed")
    /\ UNCHANGED <<cacheVars, entryVars, numEntries, lifeVars, numHandles,
                   localVars, histVars>>
RecordCode(t) ==
    /\ UNCHANGED apiVars
    /\ pc[t] = "caught"
    /\ ErrorCode' = [ErrorCode EXCEPT ![BuildResult[t]] = Ex[t].code]
    /\ Goto(t, IF IsResourceExhaustion(Ex[t]) THEN "reset" ELSE "failed")
    /\ UNCHANGED <<cacheVars, State, Val, ErrorMsg, numEntries, lifeVars,
                   numHandles, localVars, histVars>>

\*   reset();
RecoveryReset(t) ==
    /\ UNCHANGED apiVars
    /\ pc[t] = "reset"
    /\ reset
    /\ nresets' = Inc(nresets, t)
    /\ Goto(t, "reinit")
    /\ UNCHANGED <<numEntries, numHandles, localVars, nbuilds, nfetches, waited,
                   lastBuilt, before, happened>>
    /\ DropPointers(State, Val, ErrorMsg, ErrorCode)

\*   BuildResult->updateAndNotify(BS_Initial); continue;
RecoveryRetry(t) ==
    /\ UNCHANGED apiVars
    /\ MBuildResultMutexFree(BuildResult[t])
    /\ pc[t] = "reinit"
    /\ AttemptCounter' = Inc(AttemptCounter, t)
    /\ Ex' = [Ex EXCEPT ![t] = NoException]
    /\ Forget(t)
    /\ notify_all(t, BuildResult[t], "fetch")
    /\ UNCHANGED <<cacheVars, numEntries, numHandles, target, NewState, outcome,
                   histVars>>
    /\ DropPointers(updateAndNotify(BuildResult[t], BS_Initial), Val, ErrorMsg, ErrorCode)

\*   BuildResult->updateAndNotify(BS_Failed); std::rethrow_exception(...);
PublishFailed(t) ==
    /\ UNCHANGED apiVars
    /\ MBuildResultMutexFree(BuildResult[t])
    /\ pc[t] = "failed"
    /\ outcome' = [outcome EXCEPT ![t] = Raised(Ex[t], "builder", BuildResult[t])]
    /\ Ex' = [Ex EXCEPT ![t] = NoException]
    /\ Forget(t)
    /\ notify_all(t, BuildResult[t], "done")
    /\ UNCHANGED <<cacheVars, numEntries, numHandles, target, AttemptCounter,
                   NewState, histVars>>
    /\ DropPointers(updateAndNotify(BuildResult[t], BS_Failed), Val, ErrorMsg, ErrorCode)

\* Build() throws something else: catch (...) {
\*   BuildResult->updateAndNotify(BS_Initial); std::rethrow_exception(...);
BuildThrowsOther(t) ==
    /\ UNCHANGED apiVars
    /\ MBuildResultMutexFree(BuildResult[t])
    /\ pc[t] = "build"
    /\ outcome' = [outcome EXCEPT ![t] = Raised(OtherException, "builder", BuildResult[t])]
    /\ happened' = happened \cup {"other exception"}
    /\ Forget(t)
    /\ notify_all(t, BuildResult[t], "done")
    /\ lastBuilt' = [lastBuilt EXCEPT ![t] = NullPtr]
    /\ UNCHANGED <<cacheVars, numEntries, numHandles, target, AttemptCounter,
                   NewState, Ex, nbuilds, nfetches, waited, nresets, before>>
    /\ DropPointers(updateAndNotify(BuildResult[t], BS_Initial), Val, ErrorMsg, ErrorCode)

\* ------------------------------------------- calls from outside getOrBuild
\* reset() called directly.
Reset ==
    /\ UNCHANGED apiVars
    /\ reset
    /\ happened' = happened \cup {"reset"}
    /\ UNCHANGED <<numEntries, numHandles, pc, localVars, nbuilds, nfetches,
                   waited, nresets, lastBuilt, before>>
    /\ DropPointers(State, Val, ErrorMsg, ErrorCode)

\* insertBuiltProgram(CacheKey, Program) with the handle of a built program.
InsertBuiltProgram ==
    /\ UNCHANGED apiVars
    /\ \E CacheKey \in ProgramCacheKeyT, Program \in 1..numHandles, DidInsert \in BOOLEAN :
          /\ insertBuiltProgram(CacheKey, Program, DidInsert)
          /\ happened' = IF DidInsert THEN happened \cup {"prebuilt"} ELSE happened
    /\ UNCHANGED <<MKernelsPerProgramCache, MKernelFastCache, lifeVars, numHandles,
                   pc, localVars, nbuilds, nfetches, waited, nresets, lastBuilt,
                   before>>

\* saveKernel(CacheKey, CacheVal) with handles that exist.
SaveKernel ==
    /\ UNCHANGED apiVars
    /\ \E CacheKey \in KernelFastCacheKeyT, CacheVal \in KernelFastCacheValT :
          /\ CacheVal.kernel <= numHandles
          /\ CacheVal.prog <= numHandles
          /\ saveKernel(CacheKey, CacheVal)
    /\ UNCHANGED <<Cache, KeyMap, MKernelsPerProgramCache, entryVars, numEntries,
                   lifeVars, numHandles, pc, localVars, histVars>>

\* ------------------------------------------- the operations, lock by lock
\* std::lock_guard / std::unique_lock on a structural mutex: the constructor
\* waits until the mutex is free, the destructor gives it back.
lock(m, a) ==
    /\ mutex[m] = NoOwner
    /\ mutex' = [mutex EXCEPT ![m] = a]
unlock(S) == mutex' = [m \in Mutexes |-> IF m \in S THEN NoOwner ELSE mutex[m]]

\* The mutex an operation takes: acquireCachedPrograms,
\* acquireKernelsPerProgramCache, or the fast cache's unique_lock.
OpMutex(op) ==
    CASE op \in {"getOrInsertProgram", "insertBuiltProgram", "program"} -> MProgramCacheMutex
      [] op \in {"getOrInsertKernel", "kernel"} -> MKernelsPerProgramCacheMutex
      [] op \in {"tryToGetKernelFast", "saveKernel"} -> MKernelFastCacheMutex

try_emplace_Overwrites(CacheKey, It, DidInsert, InitialState, InitialVal) ==
    /\ DidInsert = TRUE
    /\ numEntries < MaxEntries
    /\ It = numEntries + 1
    /\ numEntries' = numEntries + 1
    /\ Construct(It, InitialState, InitialVal)
    /\ Cache' = [k \in DOMAIN Cache \cup {CacheKey} |->
                    IF k = CacheKey THEN It ELSE Cache[k]]

\* ProgCache.Cache.try_emplace(CacheKey, nullptr) and, when it inserted,
\* It->second = std::make_shared<ProgramBuildResult>(...) [; Val = Program]:
\* the first half of getOrInsertProgram and of insertBuiltProgram.
try_emplace(CacheKey, It, DidInsert, InitialState, InitialVal) ==
    /\ DidInsert = (CacheKey \notin DOMAIN Cache)
    /\ IF DidInsert
       THEN /\ numEntries < MaxEntries
            /\ It = numEntries + 1
            /\ numEntries' = numEntries + 1
            /\ Construct(It, InitialState, InitialVal)
            /\ Cache' = Cache @@ (CacheKey :> It)
       ELSE /\ It = Cache[CacheKey]
            /\ UNCHANGED <<Cache, numEntries, entryVars>>

KeyMap_emplace_Skipped(CacheKey) == UNCHANGED KeyMap

\* ProgCache.KeyMap.emplace(CommonKey, CacheKey): the second half.
KeyMap_emplace(CacheKey) ==
    KeyMap' = KeyMap (+) SetToBag({<<CommonKey(CacheKey), CacheKey>>})

tryToGetKernelFast_AlwaysAbsent(CacheKey) == AbsentVal

\* tryToGetKernelFast(CacheKey): the stored value, or the tuple of nullptrs.
tryToGetKernelFast(CacheKey) ==
    IF CacheKey \in DOMAIN MKernelFastCache THEN MKernelFastCache[CacheKey]
    ELSE AbsentVal

\* The record of what a getOrInsert call for key k returned.
Issue(k, It, DidInsert) ==
    issued' = [issued EXCEPT ![k] =
        [entries |-> @.entries \cup {It},
         inserts |-> @.inserts + (IF DidInsert THEN 1 ELSE 0),
         first |-> IF @.first # "none" THEN @.first
                   ELSE IF DidInsert THEN "inserted" ELSE "fetched"]]
Forgotten(K) == [k \in StructuralKeys |-> IF k \in K THEN NothingIssued ELSE issued[k]]

\* The key a getOrBuild caller's GetCachedBuild looks up.
TargetKey(tg) == IF tg.kind = "program" THEN tg.key
                 ELSE [prog |-> tg.prog, name |-> tg.name]

\* GetCachedBuild() enters getOrInsertProgram / getOrInsertKernel:
\* auto LockedCache = acquireCachedPrograms();
acquireCache(t) ==
    /\ pc[t] = "fetch"
    /\ lock(OpMutex(target[t].kind), t)
    /\ Goto(t, "locked")
    /\ UNCHANGED <<cacheVars, entryVars, numEntries, lifeVars, numHandles,
                   localVars, histVars, call, issued, prebuilt>>

GetCachedBuildLocked_KeepsLock(t) ==
    /\ pc[t] = "locked"
    /\ \E It \in Entries, DidInsert \in BOOLEAN :
          /\ \/ /\ target[t].kind = "program"
                /\ try_emplace(target[t].key, It, DidInsert, BS_Initial, NullPtr)
                /\ UNCHANGED MKernelsPerProgramCache
             \/ /\ target[t].kind = "kernel"
                /\ getOrInsertKernel(target[t].prog, target[t].name, It, DidInsert)
                /\ UNCHANGED Cache
          /\ BuildResult' = [BuildResult EXCEPT ![t] = It]
          /\ Issue(TargetKey(target[t]), It, DidInsert)
          /\ IF target[t].kind = "program" /\ DidInsert
             THEN Goto(t, "emplaced") /\ UNCHANGED <<mutex, nfetches>>
             ELSE /\ UNCHANGED mutex
                  /\ nfetches' = Inc(nfetches, t)
                  /\ Goto(t, "cas")
    /\ UNCHANGED <<KeyMap, MKernelFastCache, lifeVars, numHandles, target,
                   AttemptCounter, NewState, Ex, outcome, nbuilds, waited, nresets,
                   lastBuilt, before, happened, call, prebuilt>>

\* ... the lookup or insertion under the lock; a program that was inserted
\* still has its common key to record.
GetCachedBuildLocked(t) ==
    /\ pc[t] = "locked"
    /\ \E It \in Entries, DidInsert \in BOOLEAN :
          /\ \/ /\ target[t].kind = "program"
                /\ try_emplace(target[t].key, It, DidInsert, BS_Initial, NullPtr)
                /\ UNCHANGED MKernelsPerProgramCache
             \/ /\ target[t].kind = "kernel"
                /\ getOrInsertKernel(target[t].prog, target[t].name, It, DidInsert)
                /\ UNCHANGED Cache
          /\ BuildResult' = [BuildResult EXCEPT ![t] = It]
          /\ Issue(TargetKey(target[t]), It, DidInsert)
          /\ IF target[t].kind = "program" /\ DidInsert
             THEN Goto(t, "emplaced") /\ UNCHANGED <<mutex, nfetches>>
             ELSE /\ unlock({OpMutex(target[t].kind)})
                  /\ nfetches' = Inc(nfetches, t)
                  /\ Goto(t, "cas")
    /\ UNCHANGED <<KeyMap, MKernelFastCache, lifeVars, numHandles, target,
                   AttemptCounter, NewState, Ex, outcome, nbuilds, waited, nresets,
                   lastBuilt, before, happened, call, prebuilt>>

\* ... ProgCache.KeyMap.emplace(CommonKey, CacheKey) and the return, which
\* gives the lock back.
GetCachedBuildReturn(t) ==
    /\ pc[t] = "emplaced"
    /\ KeyMap_emplace(target[t].key)
    /\ unlock({MProgramCacheMutex})
    /\ nfetches' = Inc(nfetches, t)
    /\ Goto(t, "cas")
    /\ UNCHANGED <<Cache, MKernelsPerProgramCache, MKernelFastCache, entryVars,
                   numEntries, lifeVars, numHandles, localVars, nbuilds, waited,
                   nresets, lastBuilt, before, happened, call, issued, prebuilt>>

\* The operations a client calls: the first client any of them, the second
\* a program lookup or a reset.
Operations == {"getOrInsertProgram", "insertBuiltProgram", "getOrInsertKernel",
               "tryToGetKernelFast", "saveKernel", "reset"}
ClientOps(c) == IF c = "c1" THEN Operations ELSE {"getOrInsertProgram", "reset"}
Arguments(op) ==
    CASE op = "getOrInsertProgram" -> [key : ProgramCacheKeyT]
      [] op = "insertBuiltProgram" -> [key : ProgramCacheKeyT, prog : 1..numHandles]
      [] op = "getOrInsertKernel" -> [prog : 1..numHandles, name : KernelNames]
      [] op = "tryToGetKernelFast" -> [key : KernelFastCacheKeyT]
      [] op = "saveKernel" ->
             [key : KernelFastCacheKeyT,
              val : [kernel : 1..numHandles, prog : 1..numHandles]]
      [] op = "reset" -> {NoArg}

\* A client calls one of the public operations (what an earlier call
\* returned goes out of scope); the operation's first statement takes its
\* mutex, reset's first statement is its first lock_guard.
ClientCallOf(c, Ops) ==
    /\ pc[c] = "idle"
    /\ \E op \in Ops : \E arg \in Arguments(op) :
          /\ call' = [call EXCEPT ![c] = [NoCall EXCEPT !.op = op, !.arg = arg]]
          /\ IF op = "reset"
             THEN Goto(c, "reset") /\ UNCHANGED mutex
             ELSE Goto(c, "locked") /\ lock(OpMutex(op), c)
    /\ UNCHANGED <<cacheVars, numEntries, numHandles, localVars, histVars,
                   issued, prebuilt>>
    /\ DropPointers(State, Val, ErrorMsg, ErrorCode)

ClientCall(c) == ClientCallOf(c, ClientOps(c))

ClientGetOrInsertProgram_AlwaysEmplaces(c) ==
    /\ pc[c] = "locked" /\ call[c].op = "getOrInsertProgram"
    /\ \E It \in Entries, DidInsert \in BOOLEAN :
          /\ try_emplace(call[c].arg.key, It, DidInsert, BS_Initial, NullPtr)
          /\ call' = [call EXCEPT ![c].It = It, ![c].DidInsert = DidInsert]
          /\ Issue(call[c].arg.key, It, DidInsert)
          /\ Goto(c, "emplaced") /\ UNCHANGED mutex
    /\ UNCHANGED <<KeyMap, MKernelsPerProgramCache, MKernelFastCache, lifeVars,
                   numHandles, localVars, histVars, prebuilt>>

\* getOrInsertProgram under its mutex: try_emplace and make_shared ...
ClientGetOrInsertProgram(c) ==
    /\ pc[c] = "locked" /\ call[c].op = "getOrInsertProgram"
    /\ \E It \in Entries, DidInsert \in BOOLEAN :
          /\ try_emplace(call[c].arg.key, It, DidInsert, BS_Initial, NullPtr)
          /\ call' = [call EXCEPT ![c].It = It, ![c].DidInsert = DidInsert]
          /\ Issue(call[c].arg.key, It, DidInsert)
          /\ IF DidInsert THEN Goto(c, "emplaced") /\ UNCHANGED mutex
             ELSE Goto(c, "idle") /\ unlock({MProgramCacheMutex})
    /\ UNCHANGED <<KeyMap, MKernelsPerProgramCache, MKernelFastCache, lifeVars,
                   numHandles, localVars, histVars, prebuilt>>

ClientInsertBuiltProgram_AsInitial(c) ==
    /\ pc[c] = "locked" /\ call[c].op = "insertBuiltProgram"
    /\ \E It \in Entries, DidInsert \in BOOLEAN :
          /\ try_emplace(call[c].arg.key, It, DidInsert, BS_Initial, call[c].arg.prog)
          /\ call' = [call EXCEPT ![c].DidInsert = DidInsert]
          /\ prebuilt' = IF DidInsert THEN prebuilt \cup {It} ELSE prebuilt
          /\ IF DidInsert THEN Goto(c, "emplaced") /\ UNCHANGED mutex
             ELSE Goto(c, "idle") /\ unlock({MProgramCacheMutex})
    /\ UNCHANGED <<KeyMap, MKernelsPerProgramCache, MKernelFastCache, lifeVars,
                   numHandles, localVars, histVars, issued>>

\* insertBuiltProgram under its mutex: try_emplace, make_shared with BS_Done
\* and the store of Val ...
ClientInsertBuiltProgram(c) ==
    /\ pc[c] = "locked" /\ call[c].op = "insertBuiltProgram"
    /\ \E It \in Entries, DidInsert \in BOOLEAN :
          /\ try_emplace(call[c].arg.key, It, DidInsert, BS_Done, call[c].arg.prog)
          /\ call' = [call EXCEPT ![c].DidInsert = DidInsert]
          /\ prebuilt' = IF DidInsert THEN prebuilt \cup {It} ELSE prebuilt
          /\ IF DidInsert THEN Goto(c, "emplaced") /\ UNCHANGED mutex
             ELSE Goto(c, "idle") /\ unlock({MProgramCacheMutex})
    /\ UNCHANGED <<KeyMap, MKernelsPerProgramCache, MKernelFastCache, lifeVars,
                   numHandles, localVars, histVars, issued>>

\* ... KeyMap.emplace and the return, for both program insertions.
ClientSaveCommonKey(c) ==
    /\ pc[c] = "emplaced"
    /\ KeyMap_emplace(call[c].arg.key)
    /\ unlock({MProgramCacheMutex})
    /\ Goto(c, "idle")
    /\ UNCHANGED <<Cache, MKernelsPerProgramCache, MKernelFastCache, entryVars,
                   numEntries, lifeVars, numHandles, localVars, histVars, call,
                   issued, prebuilt>>

ClientGetOrInsertKernel(c) ==
    /\ pc[c] = "locked" /\ call[c].op = "getOrInsertKernel"
    /\ \E It \in Entries, DidInsert \in BOOLEAN :
          /\ getOrInsertKernel(call[c].arg.prog, call[c].arg.name, It, DidInsert)
          /\ call' = [call EXCEPT ![c].It = It, ![c].DidInsert = DidInsert]
          /\ Issue(call[c].arg, It, DidInsert)
    /\ unlock({MKernelsPerProgramCacheMutex})
    /\ Goto(c, "idle")
    /\ UNCHANGED <<Cache, KeyMap, MKernelFastCache, lifeVars, numHandles,
                   localVars, histVars, prebuilt>>

ClientTryToGetKernelFast(c) ==
    /\ pc[c] = "locked" /\ call[c].op = "tryToGetKernelFast"
    /\ call' = [call EXCEPT ![c].Res = tryToGetKernelFast(call[c].arg.key)]
    /\ unlock({MKernelFastCacheMutex})
    /\ Goto(c, "idle")
    /\ UNCHANGED <<cacheVars, entryVars, numEntries, lifeVars, numHandles,
                   localVars, histVars, issued, prebuilt>>

ClientSaveKernel(c) ==
    /\ pc[c] = "locked" /\ call[c].op = "saveKernel"
    /\ saveKernel(call[c].arg.key, call[c].arg.val)
    /\ unlock({MKernelFastCacheMutex})
    /\ Goto(c, "idle")
    /\ UNCHANGED <<Cache, KeyMap, MKernelsPerProgramCache, entryVars, numEntries,
                   lifeVars, numHandles, localVars, histVars, call, issued,
                   prebuilt>>

ResetLock1_TakesFastFirst(a) ==
    /\ pc[a] = "reset"
    /\ lock(MKernelFastCacheMutex, a)
    /\ Goto(a, "reset_L2")
    /\ UNCHANGED <<cacheVars, entryVars, numEntries, lifeVars, numHandles,
                   localVars, histVars, call, issued, prebuilt>>

\* reset() statement by statement, called by a client or by getOrBuild's
\* handler:  std::lock_guard<std::mutex> L1(MProgramCacheMutex);
ResetLock1(a) ==
    /\ pc[a] = "reset"
    /\ lock(MProgramCacheMutex, a)
    /\ Goto(a, "reset_L2")
    /\ UNCHANGED <<cacheVars, entryVars, numEntries, lifeVars, numHandles,
                   localVars, histVars, call, issued, prebuilt>>

\*   std::lock_guard<std::mutex> L2(MKernelsPerProgramCacheMutex);
ResetLock2(a) ==
    /\ pc[a] = "reset_L2"
    /\ lock(MKernelsPerProgramCacheMutex, a)
    /\ Goto(a, "reset_L3")
    /\ UNCHANGED <<cacheVars, entryVars, numEntries, lifeVars, numHandles,
                   localVars, histVars, call, issued, prebuilt>>

ResetLock3_SkipsLock(a) ==
    /\ pc[a] = "reset_L3"
    /\ Goto(a, "reset_programs")
    /\ UNCHANGED <<cacheVars, entryVars, numEntries, lifeVars, numHandles,
                   localVars, histVars, mutex, call, issued, prebuilt>>

\*   std::lock_guard<std::mutex> L3(MKernelFastCacheMutex);
ResetLock3(a) ==
    /\ pc[a] = "reset_L3"
    /\ lock(MKernelFastCacheMutex, a)
    /\ Goto(a, "reset_programs")
    /\ UNCHANGED <<cacheVars, entryVars, numEntries, lifeVars, numHandles,
                   localVars, histVars, call, issued, prebuilt>>

\*   MCachedPrograms = ProgramCache{};
ResetPrograms(a) ==
    /\ pc[a] = "reset_programs"
    /\ Cache' = EmptyMap
    /\ KeyMap' = EmptyBag
    /\ issued' = Forgotten(ProgramCacheKeyT)
    /\ Goto(a, "reset_kernels")
    /\ UNCHANGED <<MKernelsPerProgramCache, MKernelFastCache, numEntries,
                   numHandles, localVars, histVars, mutex, call, prebuilt>>
    /\ DropPointers(State, Val, ErrorMsg, ErrorCode)

ResetKernels_KeepsKernels(a) ==
    /\ pc[a] = "reset_kernels"
    /\ Goto(a, "reset_fast")
    /\ UNCHANGED <<Cache, KeyMap, MKernelsPerProgramCache, MKernelFastCache,
                   numEntries, numHandles, localVars, histVars, mutex, call,
                   issued, prebuilt>>
    /\ DropPointers(State, Val, ErrorMsg, ErrorCode)

\*   MKernelsPerProgramCache = KernelCacheT{};
ResetKernels(a) ==
    /\ pc[a] = "reset_kernels"
    /\ MKernelsPerProgramCache' = EmptyMap
    /\ issued' = Forgotten(KernelKeys)
    /\ Goto(a, "reset_fast")
    /\ UNCHANGED <<Cache, KeyMap, MKernelFastCache, numEntries, numHandles,
                   localVars, histVars, mutex, call, prebuilt>>
    /\ DropPointers(State, Val, ErrorMsg, ErrorCode)

\*   MKernelFastCache = KernelFastCacheT{};   and the return, which gives the
\* three mutexes back.
ResetFast(a) ==
    /\ pc[a] = "reset_fast"
    /\ MKernelFastCache' = EmptyMap
    /\ unlock(Mutexes)
    /\ nresets' = IF a \in Threads THEN Inc(nresets, a) ELSE nresets
    /\ Goto(a, IF a \in Threads THEN "reinit" ELSE "idle")
    /\ UNCHANGED <<Cache, KeyMap, MKernelsPerProgramCache, entryVars, numEntries,
                   lifeVars, numHandles, localVars, nbuilds, nfetches, waited,
                   lastBuilt, before, happened, call, issued, prebuilt>>

\* A cache just constructed, and n program handles created outside it.
InitWithHandles(n) ==
    /\ Cache = EmptyMap
    /\ KeyMap = EmptyBag
    /\ MKernelsPerProgramCache = EmptyMap
    /\ MKernelFastCache = EmptyMap
    /\ State = [e \in Entries |-> BS_Initial]
    /\ Val = [e \in Entries |-> NullPtr]
    /\ ErrorMsg = [e \in Entries |-> ""]
    /\ ErrorCode = [e \in Entries |-> UR_RESULT_SUCCESS]
    /\ numEntries = 0
    /\ destroyed = {}
    /\ released = [h \in Handles |-> 0]
    /\ reported = FALSE
    /\ numHandles = n
    /\ pc = [a \in Actors |-> "idle"]
    /\ target = [t \in Threads |-> NoTarget]
    /\ AttemptCounter = [t \in Threads |-> 0]
    /\ BuildResult = [t \in Threads |-> NullPtr]
    /\ NewState = [t \in Threads |-> BS_Initial]
    /\ Ex = [t \in Threads |-> NoException]
    /\ outcome = [t \in Threads |-> NoOutcome]
    /\ nbuilds = [t \in Threads |-> 0]
    /\ nfetches = [t \in Threads |-> 0]
    /\ waited = [t \in Threads |-> FALSE]
    /\ nresets = [t \in Threads |-> 0]
    /\ lastBuilt = [t \in Threads |-> NullPtr]
    /\ before = [t \in Threads |-> 0]
    /\ happened = {}
    /\ mutex = [m \in Mutexes |-> NoOwner]
    /\ call = [c \in Clients |-> NoCall]
    /\ issued = [k \in StructuralKeys |-> NothingIssued]
    /\ prebuilt = {}

\* The public operations called by the clients, lock by lock, with one
\* program handle created outside the cache.
ApiInit == InitWithHandles(1)

ApiNext ==
    \/ \E c \in Clients : ClientCall(c)
    \/ \E c \in Clients : ClientGetOrInsertProgram(c)
    \/ \E c \in Clients : ClientInsertBuiltProgram(c)
    \/ \E c \in Clients : ClientSaveCommonKey(c)
    \/ \E c \in Clients : ClientGetOrInsertKernel(c)
    \/ \E c \in Clients : ClientTryToGetKernelFast(c)
    \/ \E c \in Clients : ClientSaveKernel(c)
    \/ \E c \in Clients : ResetLock1(c)
    \/ \E c \in Clients : ResetLock2(c)
    \/ \E c \in Clients : ResetLock3(c)
    \/ \E c \in Clients : ResetPrograms(c)
    \/ \E c \in Clients : ResetKernels(c)
    \/ \E c \in Clients : ResetFast(c)

ApiSpec == ApiInit /\ [][ApiNext]_vars

\* The kernel cache alone: both clients look kernels up under either of two
\* program handles, or reset.
KernelOps == {"getOrInsertKernel", "reset"}
KernelInit == InitWithHandles(Cardinality(Handles))
KernelNext ==
    \/ \E c \in Clients : ClientCallOf(c, KernelOps)
    \/ \E c \in Clients : ClientGetOrInsertKernel(c)
    \/ \E c \in Clients : ResetLock1(c)
    \/ \E c \in Clients : ResetLock2(c)
    \/ \E c \in Clients : ResetLock3(c)
    \/ \E c \in Clients : ResetPrograms(c)
    \/ \E c \in Clients : ResetKernels(c)
    \/ \E c \in Clients : ResetFast(c)

KernelSpec == KernelInit /\ [][KernelNext]_vars

\* The fast cache alone: both clients save kernels with either of two
\* handles, look them up, or reset.
FastOps == {"tryToGetKernelFast", "saveKernel", "reset"}
FastCacheNext ==
    \/ \E c \in Clients : ClientCallOf(c, FastOps)
    \/ \E c \in Clients : ClientTryToGetKernelFast(c)
    \/ \E c \in Clients : ClientSaveKernel(c)
    \/ \E c \in Clients : ResetLock1(c)
    \/ \E c \in Clients : ResetLock2(c)
    \/ \E c \in Clients : ResetLock3(c)
    \/ \E c \in Clients : ResetPrograms(c)
    \/ \E c \in Clients : ResetKernels(c)
    \/ \E c \in Clients : ResetFast(c)

FastCacheSpec == KernelInit /\ [][FastCacheNext]_vars

\* Pre-built programs: one client inserts them or resets while one thread
\* calls getOrBuild.
BuiltOps == {"insertBuiltProgram", "reset"}
Builder == {"t1"}
Inserter == {"c1"}
BuiltNext ==
    \/ \E c \in Inserter : ClientCallOf(c, BuiltOps)
    \/ \E c \in Inserter : ClientInsertBuiltProgram(c)
    \/ \E c \in Inserter : ClientSaveCommonKey(c)
    \/ \E t \in Builder : Call(t)
    \/ \E t \in Builder : acquireCache(t)
    \/ \E t \in Builder : GetCachedBuildLocked(t)
    \/ \E t \in Builder : GetCachedBuildReturn(t)
    \/ \E t \in Builder : TryClaim(t)
    \/ \E t \in Builder : waitUntilTransition(t)
    \/ \E t \in Builder : WaiterReturn(t)
    \/ \E t \in Builder : BuildSucceeds(t)
    \/ \E t \in Builder : BuildThrows(t)
    \/ \E t \in Builder : RecordCode(t)
    \/ \E t \in Builder : RecoveryRetry(t)
    \/ \E t \in Builder : PublishFailed(t)
    \/ \E t \in Builder : BuildThrowsOther(t)
    \/ \E a \in Builder \cup Inserter : ResetLock1(a)
    \/ \E a \in Builder \cup Inserter : ResetLock2(a)
    \/ \E a \in Builder \cup Inserter : ResetLock3(a)
    \/ \E a \in Builder \cup Inserter : ResetPrograms(a)
    \/ \E a \in Builder \cup Inserter : ResetKernels(a)
    \/ \E a \in Builder \cup Inserter : ResetFast(a)

BuiltSpec == InitWithHandles(1) /\ [][BuiltNext]_vars

\* The getOrBuild calls with their cache operations followed lock by lock.
LockNext ==
    \/ \E t \in TwoThreads : Call(t)
    \/ \E t \in TwoThreads : acquireCache(t)
    \/ \E t \in TwoThreads : GetCachedBuildLocked(t)
    \/ \E t \in TwoThreads : GetCachedBuildReturn(t)
    \/ \E t \in TwoThreads : TryClaim(t)
    \/ \E t \in TwoThreads : waitUntilTransition(t)
    \/ \E t \in TwoThreads : WaiterReturn(t)
    \/ \E t \in TwoThreads : WaiterThrow(t)
    \/ \E t \in TwoThreads : WaiterRetry(t)
    \/ \E t \in TwoThreads : BuildSucceeds(t)
    \/ \E t \in TwoThreads : BuildThrows(t)
    \/ \E t \in TwoThreads : RecordCode(t)
    \/ \E t \in TwoThreads : ResetLock1(t)
    \/ \E t \in TwoThreads : ResetLock2(t)
    \/ \E t \in TwoThreads : ResetLock3(t)
    \/ \E t \in TwoThreads : ResetPrograms(t)
    \/ \E t \in TwoThreads : ResetKernels(t)
    \/ \E t \in TwoThreads : ResetFast(t)
    \/ \E t \in TwoThreads : RecoveryRetry(t)
    \/ \E t \in TwoThreads : PublishFailed(t)
    \/ \E t \in TwoThreads : BuildThrowsOther(t)

LockSpec == Init /\ [][LockNext]_vars

\* A thread whose getOrBuild call has ended makes the same call again, once
\* in a behaviour; the history of the call starts afresh.
CallAgain(t) ==
    /\ UNCHANGED apiVars
    /\ pc[t] = "done"
    /\ "called again" \notin happened
    /\ happened' = happened \cup {"called again"}
    /\ AttemptCounter' = [AttemptCounter EXCEPT ![t] = 0]
    /\ NewState' = [NewState EXCEPT ![t] = BS_Initial]
    /\ outcome' = [outcome EXCEPT ![t] = NoOutcome]
    /\ nbuilds' = [nbuilds EXCEPT ![t] = 0]
    /\ nfetches' = [nfetches EXCEPT ![t] = 0]
    /\ waited' = [waited EXCEPT ![t] = FALSE]
    /\ nresets' = [nresets EXCEPT ![t] = 0]
    /\ lastBuilt' = [lastBuilt EXCEPT ![t] = NullPtr]
    /\ before' = [before EXCEPT ![t] = 0]
    /\ Goto(t, "fetch")
    /\ UNCHANGED <<cacheVars, entryVars, numEntries, numHandles, target,
                   BuildResult, Ex>>
    /\ DropPointers(State, Val, ErrorMsg, ErrorCode)

\* The program targets with the given specialization constants.
ProgramTargetsWith(SpecConsts) == {tg \in ProgramTargets : tg.key.spec = SpecConsts}

\* The thread that calls again.
Repeaters == {"t1"}

\* getOrBuild of one program by two threads, with waitUntilTransition step by
\* step.
WaitNext ==
    \/ \E t \in TwoThreads : CallFor(t, ProgramTargetsWith("sc1"))
    \/ \E t \in Repeaters : CallAgain(t)
    \/ \E t \in TwoThreads : GetCachedBuild(t)
    \/ \E t \in TwoThreads : TryClaim(t)
    \/ \E t \in TwoThreads : waitLock(t)
    \/ \E t \in TwoThreads : waitLoadTo(t)
    \/ \E t \in TwoThreads : waitTest(t)
    \/ \E t \in TwoThreads : waitSpurious(t)
    \/ \E t \in TwoThreads : WaiterReturn(t)
    \/ \E t \in TwoThreads : WaiterThrow(t)
    \/ \E t \in TwoThreads : WaiterRetry(t)
    \/ \E t \in TwoThreads : BuildSucceeds(t)
    \/ \E t \in TwoThreads : BuildThrows(t)
    \/ \E t \in TwoThreads : RecordCode(t)
    \/ \E t \in TwoThreads : RecoveryReset(t)
    \/ \E t \in TwoThreads : RecoveryRetry(t)
    \/ \E t \in TwoThreads : PublishFailed(t)
    \/ \E t \in TwoThreads : BuildThrowsOther(t)

WaitSpec == Init /\ [][WaitNext]_vars

\* The steps of getOrBuild thread t that a fair scheduler makes it take: all
\* but entering a call, which is the caller's choice, and a spurious wake-up,
\* which nothing guarantees. A build function that is running ends, with a
\* value or a failure.
Proceeds(t) ==
    \/ GetCachedBuild(t)
    \/ TryClaim(t)
    \/ waitLock(t)
    \/ waitLoadTo(t)
    \/ waitTest(t)
    \/ WaiterReturn(t)
    \/ WaiterThrow(t)
    \/ WaiterRetry(t)
    \/ BuildSucceeds(t)
    \/ BuildThrows(t)
    \/ RecordCode(t)
    \/ RecoveryReset(t)
    \/ RecoveryRetry(t)
    \/ PublishFailed(t)
    \/ BuildThrowsOther(t)

\* WaitSpec under fair scheduling: a thread that can lock the entry's mutex
\* again and again gets it.
FairWaitSpec == WaitSpec /\ \A t \in TwoThreads : SF_vars(Proceeds(t))

\* Three getOrBuild threads, with waitUntilTransition step by step: two of
\* them want one program and the third wants another.
WantedBy(t) == IF t \in TwoThreads THEN ProgramTargetsWith("sc1")
                                   ELSE ProgramTargetsWith("sc2")

SignalNext ==
    \/ \E t \in Threads : CallFor(t, WantedBy(t))
    \/ \E t \in Threads : GetCachedBuild(t)
    \/ \E t \in Threads : TryClaim(t)
    \/ \E t \in Threads : waitLock(t)
    \/ \E t \in Threads : waitLoadTo(t)
    \/ \E t \in Threads : waitTest(t)
    \/ \E t \in Threads : waitSpurious(t)
    \/ \E t \in Threads : WaiterReturn(t)
    \/ \E t \in Threads : WaiterThrow(t)
    \/ \E t \in Threads : WaiterRetry(t)
    \/ \E t \in Threads : BuildSucceeds(t)
    \/ \E t \in Threads : BuildThrows(t)
    \/ \E t \in Threads : RecordCode(t)
    \/ \E t \in Threads : RecoveryReset(t)
    \/ \E t \in Threads : RecoveryRetry(t)
    \/ \E t \in Threads : PublishFailed(t)
    \/ \E t \in Threads : BuildThrowsOther(t)

SignalSpec == Init /\ [][SignalNext]_vars

\* A caller whose getOrBuild on the kernel cache returned an entry saves the
\* entry's kernel handle, with the program handle it was built under, in the
\* fast cache: saveKernel(CacheKey, CacheVal).
SaveBuiltKernel(t) ==
    /\ UNCHANGED apiVars
    /\ pc[t] = "done"
    /\ target[t].kind = "kernel"
    /\ outcome[t].kind = "returned"
    /\ \E CacheKey \in KernelFastCacheKeyT :
          /\ CacheKey.name = target[t].name
          /\ saveKernel(CacheKey, [kernel |-> Val[outcome[t].entry],
                                   prog |-> target[t].prog])
    /\ UNCHANGED <<Cache, KeyMap, MKernelsPerProgramCache, entryVars, numEntries,
                   lifeVars, numHandles, pc, localVars, histVars>>

\* The getOrBuild threads save the kernels they obtained in the fast cache,
\* and the cache is reset at any time.
FastNext ==
    \/ \E t \in TwoThreads : Call(t)
    \/ \E t \in TwoThreads : GetCachedBuild(t)
    \/ \E t \in TwoThreads : TryClaim(t)
    \/ \E t \in TwoThreads : waitUntilTransition(t)
    \/ \E t \in TwoThreads : WaiterReturn(t)
    \/ \E t \in TwoThreads : WaiterThrow(t)
    \/ \E t \in TwoThreads : WaiterRetry(t)
    \/ \E t \in TwoThreads : BuildSucceeds(t)
    \/ \E t \in TwoThreads : BuildThrows(t)
    \/ \E t \in TwoThreads : RecordCode(t)
    \/ \E t \in TwoThreads : RecoveryReset(t)
    \/ \E t \in TwoThreads : RecoveryRetry(t)
    \/ \E t \in TwoThreads : PublishFailed(t)
    \/ \E t \in TwoThreads : BuildThrowsOther(t)
    \/ \E t \in TwoThreads : SaveBuiltKernel(t)
    \/ Reset

FastSpec == Init /\ [][FastNext]_vars

\* Everything together, mutex by mutex: two getOrBuild threads that want one
\* program, with their cache operations lock by lock and waitUntilTransition
\* step by step, and a client that calls one of the public operations.
Caller == {"c1"}
\* The client makes one call in a behaviour, of any operation.
ClientCallOnce(c) == call[c] = NoCall /\ ClientCallOf(c, Operations)
AllNext ==
    \/ \E t \in TwoThreads : CallFor(t, ProgramTargetsWith("sc1"))
    \/ \E t \in TwoThreads : acquireCache(t)
    \/ \E t \in TwoThreads : GetCachedBuildLocked(t)
    \/ \E t \in TwoThreads : GetCachedBuildReturn(t)
    \/ \E t \in TwoThreads : TryClaim(t)
    \/ \E t \in TwoThreads : waitLock(t)
    \/ \E t \in TwoThreads : waitLoadTo(t)
    \/ \E t \in TwoThreads : waitTest(t)
    \/ \E t \in TwoThreads : waitSpurious(t)
    \/ \E t \in TwoThreads : WaiterReturn(t)
    \/ \E t \in TwoThreads : WaiterThrow(t)
    \/ \E t \in TwoThreads : WaiterRetry(t)
    \/ \E t \in TwoThreads : BuildSucceeds(t)
    \/ \E t \in TwoThreads : BuildThrows(t)
    \/ \E t \in TwoThreads : RecordCode(t)
    \/ \E t \in TwoThreads : RecoveryRetry(t)
    \/ \E t \in TwoThreads : PublishFailed(t)
    \/ \E t \in TwoThreads : BuildThrowsOther(t)
    \/ \E c \in Caller : ClientCallOnce(c)
    \/ \E c \in Caller : ClientGetOrInsertProgram(c)
    \/ \E c \in Caller : ClientInsertBuiltProgram(c)
    \/ \E c \in Caller : ClientSaveCommonKey(c)
    \/ \E c \in Caller : ClientGetOrInsertKernel(c)
    \/ \E c \in Caller : ClientTryToGetKernelFast(c)
    \/ \E c \in Caller : ClientSaveKernel(c)
    \/ \E a \in TwoThreads \cup Caller : ResetLock1(a)
    \/ \E a \in TwoThreads \cup Caller : ResetLock2(a)
    \/ \E a \in TwoThreads \cup Caller : ResetLock3(a)
    \/ \E a \in TwoThreads \cup Caller : ResetPrograms(a)
    \/ \E a \in TwoThreads \cup Caller : ResetKernels(a)
    \/ \E a \in TwoThreads \cup Caller : ResetFast(a)

AllSpec == Init /\ [][AllNext]_vars

Next ==
    \/ \E t \in TwoThreads : Call(t)
    \/ \E t \in TwoThreads : GetCachedBuild(t)
    \/ \E t \in TwoThreads : TryClaim(t)
    \/ \E t \in TwoThreads : waitUntilTransition(t)
    \/ \E t \in TwoThreads : WaiterReturn(t)
    \/ \E t \in TwoThreads : WaiterThrow(t)
    \/ \E t \in TwoThreads : WaiterRetry(t)
    \/ \E t \in TwoThreads : BuildSucceeds(t)
    \/ \E t \in TwoThreads : BuildThrows(t)
    \/ \E t \in TwoThreads : RecordCode(t)
    \/ \E t \in TwoThreads : RecoveryReset(t)
    \/ \E t \in TwoThreads : RecoveryRetry(t)
    \/ \E t \in TwoThreads : PublishFailed(t)
    \/ \E t \in TwoThreads : BuildThrowsOther(t)
    \/ Reset
    \/ InsertBuiltProgram
    \/ SaveKernel

Spec == Init /\ [][Next]_vars

\* ------------------------------------------------------------ properties
\* The thread has won a claim and not yet published the entry's next state.
InBuildBody(t) ==
    pc[t] \in {"build", "caught", "reset", "reset_L2", "reset_L3", "reset_programs",
              "reset_kernels", "reset_fast", "reinit", "failed"}
\* The thread is inside the build function.
ExecutingBuild(t) == pc[t] = "build"
\* No reset() has run, neither called directly nor by a recovery.
NoResetYet == "reset" \notin happened /\ \A t \in Threads : nresets[t] = 0

\* The calls for one target, and the Build() invocations they made.
Callers(tg) == {t \in Threads : target[t] = tg}
RECURSIVE SumOver(_, _)
SumOver(f, S) == IF S = {} THEN 0
                 ELSE LET x == CHOOSE y \in S : TRUE IN f[x] + SumOver(f, S \ {x})
BuildsOf(tg) == SumOver(nbuilds, Callers(tg))
Finished(tg) == {t \in Callers(tg) : pc[t] = "done"}

\* Nothing but getOrBuild calls has touched the cache and no build has failed
\* with resource exhaustion.
NoRetryYet ==
    /\ "resource exhaustion" \notin happened
    /\ "reset" \notin happened
    /\ "prebuilt" \notin happened

\* Two calls ended the same way: with the same entry (hence the same value),
\* or with errors of the same message and code.
SameOutcome(o1, o2) ==
    /\ o1.kind = o2.kind
    /\ o1.kind = "returned" => o1.entry = o2.entry
    /\ o1.kind = "raised" => o1.ex.msg = o2.ex.msg /\ o1.ex.code = o2.ex.code

SameOrDefault(w, x) ==
    IF x.msg # "" THEN w.msg = x.msg /\ w.code = x.code ELSE w = DefaultException

C2_AtMostOneBuildPerKey ==
    \A t1, t2 \in Threads :
        (t1 # t2 /\ ExecutingBuild(t1) /\ ExecutingBuild(t2)) => target[t1] # target[t2]

\* C2 amended: as long as no reset (direct or by recovery) has happened, at
\* most one thread is executing the build function for a given key.
C2_AtMostOneBuildPerKeyUntilReset ==
    NoResetYet => C2_AtMostOneBuildPerKey

\* Two calls for one key contend, no reset so far: one builds, one waits.
C2_Witness ==
    /\ NoResetYet
    /\ \E t1, t2 \in Threads :
          /\ t1 # t2 /\ target[t1] = target[t2]
          /\ ExecutingBuild(t1) /\ pc[t2] = "wait"

\* C3: every entry has exactly one thread between a won claim and its publish
\* while the entry is InProgress, and none in any other state.
C3_SingleBuilderPerEntry ==
    \A e \in Entries :
        Cardinality({t \in Threads : InBuildBody(t) /\ BuildResult[t] = e})
            = IF State[e] = BS_InProgress THEN 1 ELSE 0

\* Two threads hold one entry; one won the claim, the other lost it.
C3_Witness ==
    \E t1, t2 \in Threads :
        /\ t1 # t2 /\ BuildResult[t1] = BuildResult[t2] /\ BuildResult[t1] # NullPtr
        /\ InBuildBody(t1) /\ pc[t2] \in {"wait", "woke"}

\* C4 as stated: when the builder of an entry raised a failure that is not
\* resource exhaustion, every waiter that observed the entry Failed has
\* raised an error with the builder's message and code, whatever they are.
C4_FailureReplay ==
    \A b, w \in Threads :
        ( /\ outcome[b].kind = "raised" /\ outcome[b].role = "builder"
          /\ outcome[b].ex.kind = "sycl" /\ ~IsResourceExhaustion(outcome[b].ex)
          /\ pc[w] = "done" /\ outcome[w].role = "waiter"
          /\ outcome[w].on = outcome[b].on /\ NewState[w] = BS_Failed )
        => /\ outcome[w].kind = "raised"
           /\ outcome[w].ex.msg = outcome[b].ex.msg
           /\ outcome[w].ex.code = outcome[b].ex.code

\* The three containers hold nothing.
AllCachesEmpty ==
    /\ Cache = EmptyMap
    /\ KeyMap = EmptyBag
    /\ MKernelsPerProgramCache = EmptyMap
    /\ MKernelFastCache = EmptyMap

\* The call is over after two attempts that both ran the build function, the
\* second of which returned a value: the first failed with resource exhaustion.
RetriedOnce(t) ==
    /\ pc[t] = "done"
    /\ nfetches[t] = 2
    /\ nbuilds[t] = 2
    /\ lastBuilt[t] # NullPtr

\* C5: a call whose build failed with resource exhaustion on the first attempt
\* and succeeded on the second returns an entry in state Done holding the
\* second attempt's value and raises nothing; the recovery's reset leaves the
\* program cache, the kernel cache and the fast cache empty, and no entry
\* created before the failure is in the program or kernel cache afterwards.
C5_RetryAfterResourceExhaustion ==
    [][\A t \in Threads :
          /\ (pc[t] = "reset" /\ pc'[t] = "reinit") => AllCachesEmpty'
          /\ RetriedOnce(t)' =>
                 /\ nresets'[t] = 1
                 /\ outcome'[t].kind = "returned"
                 /\ outcome'[t].role = "builder"
                 /\ outcome'[t].entry \notin destroyed'
                 /\ State'[outcome'[t].entry] = BS_Done
                 /\ Val'[outcome'[t].entry] = lastBuilt'[t]
                 /\ CachedEntries' \cap (1..before'[t]) = {}]_vars

\* A call retried once and succeeded, and its first failure cleared a cache
\* that held another entry besides its own.
C5_Witness == \E t \in Threads : RetriedOnce(t) /\ before[t] >= 2

\* C6 as stated: a call fetches at most MaxAttempts times and builds at most
\* MaxAttempts times; its loop counter never reaches MaxAttempts.
C6_BoundedRetry ==
    \A t \in Threads :
        /\ nfetches[t] <= MaxAttempts
        /\ nbuilds[t] <= MaxAttempts
        /\ AttemptCounter[t] < MaxAttempts

C8_ReturnedEntryIsBuilt ==
    \A t \in Threads :
        outcome[t].kind = "returned" =>
            /\ outcome[t].entry \in Entries \ destroyed
            /\ State[outcome[t].entry] = BS_Done
            /\ Val[outcome[t].entry] \in 1..numHandles
            /\ outcome[t].role = "builder" => Val[outcome[t].entry] = lastBuilt[t]

\* A waiter and the builder have both returned the same entry.
C8_Witness ==
    \E t1, t2 \in Threads :
        /\ outcome[t1].kind = "returned" /\ outcome[t1].role = "builder"
        /\ outcome[t2].kind = "returned" /\ outcome[t2].role = "waiter"
        /\ outcome[t1].entry = outcome[t2].entry

\* What the builder does with a sycl::exception that is not resource
\* exhaustion: message and code are recorded on the entry, the entry is
\* published Failed, the exception is raised to the caller, and the caches
\* are left as they are.
SyclFailureHandled(t) ==
    /\ (pc[t] = "build" /\ pc'[t] = "caught") =>
           /\ Ex'[t] \in BuildFailures
           /\ ErrorMsg'[BuildResult[t]] = Ex'[t].msg
           /\ UNCHANGED cacheVars
    /\ (pc[t] = "caught" /\ pc'[t] # "caught") =>
           /\ ErrorCode'[BuildResult[t]] = Ex[t].code
           /\ UNCHANGED cacheVars
           /\ IsResourceExhaustion(Ex[t]) \/ pc'[t] = "failed"
    /\ (pc[t] = "failed" /\ pc'[t] # "failed") =>
           /\ pc'[t] = "done"
           /\ outcome'[t] = Raised(Ex[t], "builder", BuildResult[t])
           /\ UNCHANGED cacheVars
           /\ \/ BuildResult[t] \in destroyed'
              \/ /\ State'[BuildResult[t]] = BS_Failed
                 /\ ErrorMsg'[BuildResult[t]] = Ex[t].msg
                 /\ ErrorCode'[BuildResult[t]] = Ex[t].code

\* The build function's failure goes straight to the caller.
RaisedFromBuild(t) ==
    pc[t] = "build" /\ pc'[t] = "done" /\ outcome'[t].kind = "raised"

ForwardStep(e) ==
    \/ State[e] = BS_Initial /\ State'[e] = BS_InProgress
    \/ State[e] = BS_InProgress /\ State'[e] \in {BS_Done, BS_Failed}

\* The entry's builder, having reset the cache after a resource-exhaustion
\* failure, publishes Initial.
ReturnByRecovery(e) ==
    /\ State[e] \in {BS_InProgress, BS_Failed}
    /\ State'[e] = BS_Initial
    /\ \E t \in Threads :
          /\ BuildResult[t] = e
          /\ pc[t] = "reinit"
          /\ IsResourceExhaustion(Ex[t])

\* The entry's builder publishes Initial on an exception that is not a
\* sycl::exception, without resetting the cache.
ReturnByCatchAll(e) ==
    /\ State[e] = BS_InProgress
    /\ State'[e] = BS_Initial
    /\ UNCHANGED cacheVars
    /\ \E t \in Threads :
          /\ BuildResult[t] = e
          /\ pc[t] = "build"
          /\ outcome'[t] = Raised(OtherException, "builder", e)

\* A builder stands before the recovery's publication of Initial only after
\* a resource-exhaustion failure and a reset that emptied every container.
ReinitOnlyAfterReset ==
    \A t \in Threads :
        (pc'[t] = "reinit" /\ pc[t] # "reinit") =>
            /\ pc[t] = "reset"
            /\ IsResourceExhaustion(Ex[t])
            /\ AllCachesEmpty'

C11_ProgramKeyIdentity ==
    \A K \in ProgramCacheKeyT :
        issued[K].first # "none" =>
            /\ Cardinality(issued[K].entries) = 1
            /\ issued[K].inserts = 1
            /\ issued[K].first = "inserted"

\* C11 amended: between two resets, the getOrInsertProgram calls for one key
\* all return the same entry; wasInserted is true for at most one of them,
\* and then for the first; it is false for every one of them exactly when
\* the entry they return was put there by insertBuiltProgram.
C11_ProgramKeyIdentityAmended ==
    \A K \in ProgramCacheKeyT :
        issued[K].first # "none" =>
            /\ Cardinality(issued[K].entries) = 1
            /\ issued[K].inserts <= 1
            /\ (issued[K].inserts = 1) = (issued[K].first = "inserted")
            /\ (issued[K].inserts = 0) = (issued[K].entries \subseteq prebuilt)

\* Both clients hold what getOrInsertProgram returned for the same key: one
\* entry, inserted by one call and fetched by the other.
C11_Witness ==
    /\ \A c \in Clients : pc[c] = "idle" /\ call[c].op = "getOrInsertProgram"
    /\ call["c1"].arg = call["c2"].arg
    /\ call["c1"].It = call["c2"].It
    /\ call["c1"].It # NullPtr
    /\ call["c1"].DidInsert # call["c2"].DidInsert
    /\ issued[call["c1"].arg.key].inserts = 1

\* What the getOrInsertKernel calls returned so far, key by key: one entry
\* per (program handle, kernel name) pair, different pairs different
\* entries, and the first call of a pair the only one that inserted.
OneEntryPerKernelKey ==
    \A k1, k2 \in KernelKeys :
        (issued[k1].first # "none" /\ issued[k2].first # "none") =>
            /\ Cardinality(issued[k1].entries) = 1
            /\ issued[k1].inserts = 1
            /\ issued[k1].first = "inserted"
            /\ (issued[k1].entries = issued[k2].entries) = (k1 = k2)

\* The entry a getOrInsertKernel call has just inserted is Initial and holds
\* no kernel handle.
InsertedKernelIsInitial ==
    \A k \in KernelKeys :
        issued'[k].inserts > issued[k].inserts =>
            \A e \in issued'[k].entries :
                State'[e] = BS_Initial /\ Val'[e] = NullPtr

ObservableUnderProgramLock ==
    \/ mutex[MProgramCacheMutex] = NoOwner
    \/ \E a \in Actors :
          /\ mutex[MProgramCacheMutex] = a
          /\ pc[a] \in {"locked", "reset_L2", "reset_L3", "reset_programs"}

\* The keys recorded in the multimap under common key C.
KeysUnder(C) == {K \in ProgramCacheKeyT : BagIn(<<C, K>>, KeyMap)}

\* C13: in every state observable under the program-cache lock, each key in
\* the program cache is recorded in the multimap under its CommonKey, so
\* the keys recorded under a common key include every inserted key that has
\* that common key.
C13_CommonKeyCoverage ==
    ObservableUnderProgramLock =>
        \A K \in DOMAIN Cache : K \in KeysUnder(CommonKey(K))

\* Two keys with one common key were inserted, one by getOrInsertProgram
\* and one by insertBuiltProgram, and a client has just taken the lock.
C13_Witness ==
    /\ \E K1, K2 \in DOMAIN Cache :
          /\ K1 # K2
          /\ CommonKey(K1) = CommonKey(K2)
          /\ Cache[K1] \in prebuilt
          /\ Cache[K2] \notin prebuilt
          /\ {K1, K2} \subseteq KeysUnder(CommonKey(K1))
    /\ mutex[MProgramCacheMutex] = "c2"
    /\ pc["c2"] = "locked"

\* insertBuiltProgram's step under the lock, for a key that is absent: the
\* key gets a new entry that is Done and holds the given program, every
\* other entry and container is as before, and true is what it will return.
InsertsBuiltWhenAbsent(c) ==
    LET K == call[c].arg.key
        e == Cache'[K]
    IN  /\ pc'[c] = "emplaced"
        /\ call'[c].DidInsert = TRUE
        /\ DOMAIN Cache' = DOMAIN Cache \cup {K}
        /\ \A k \in DOMAIN Cache : Cache'[k] = Cache[k]
        /\ e \notin 1..numEntries
        /\ State'[e] = BS_Done /\ Val'[e] = call[c].arg.prog
        /\ \A o \in 1..numEntries :
              /\ State'[o] = State[o] /\ Val'[o] = Val[o]
              /\ ErrorMsg'[o] = ErrorMsg[o] /\ ErrorCode'[o] = ErrorCode[o]
        /\ UNCHANGED <<MKernelsPerProgramCache, MKernelFastCache>>

\* ... and for a key that is present: it returns false, and no container and
\* no entry changes.
FetchesBuiltWhenPresent(c) ==
    /\ pc'[c] = "idle"
    /\ call'[c].DidInsert = FALSE
    /\ UNCHANGED <<cacheVars, entryVars, numEntries>>

\* Before insertBuiltProgram returns true the key is recorded under its
\* common key.
RecordsBuiltKey(c) ==
    LET K == call[c].arg.key
    IN  /\ K \in KeysUnder(CommonKey(K))'
        /\ call'[c].DidInsert = TRUE
        /\ Cache'[K] = Cache[K]
        /\ State'[Cache[K]] = BS_Done /\ Val'[Cache[K]] = call[c].arg.prog

\* No thread is in, or on its way into, the build function for an entry that
\* insertBuiltProgram made, and such an entry stays Done while it exists.
NeverBuildsPrebuilt ==
    /\ \A t \in Threads : InBuildBody(t) => BuildResult[t] \notin prebuilt
    /\ \A e \in prebuilt : e \notin destroyed => State[e] = BS_Done

\* C14: insertBuiltProgram for an absent key inserts a Done entry holding
\* the given program, records the key under its common key and returns
\* true, and no build function is ever run for that entry; for a present key
\* it returns false and changes no entry and no container.
C14_InsertBuiltProgram ==
    [][/\ NeverBuildsPrebuilt'
       /\ \A c \in Clients :
             /\ (call[c].op = "insertBuiltProgram" /\ pc[c] = "locked" /\ pc'[c] # "locked") =>
                   IF call[c].arg.key \in DOMAIN Cache
                   THEN FetchesBuiltWhenPresent(c)
                   ELSE InsertsBuiltWhenAbsent(c)
             /\ (call[c].op = "insertBuiltProgram" /\ pc[c] = "emplaced" /\ pc'[c] # "emplaced") =>
                   RecordsBuiltKey(c)]_vars

\* A getOrBuild call returned a pre-built entry without building, and a
\* second insertBuiltProgram for its key has returned false.
C14_Witness ==
    /\ pc["c1"] = "idle"
    /\ call["c1"].op = "insertBuiltProgram"
    /\ call["c1"].DidInsert = FALSE
    /\ call["c1"].arg.key \in DOMAIN Cache
    /\ Cache[call["c1"].arg.key] \in prebuilt
    /\ \E t \in Threads :
          /\ pc[t] = "done"
          /\ outcome[t].kind = "returned"
          /\ outcome[t].entry = Cache[call["c1"].arg.key]
          /\ nbuilds[t] = 0

\* C15: tryToGetKernelFast for a key that is not in the fast cache returns
\* the all-null value and returns normally, and for a key that is there
\* returns the stored value; in both cases no cache and no entry changes.
C15_FastCacheMissTolerance ==
    [][\A c \in Clients :
          (call[c].op = "tryToGetKernelFast" /\ pc[c] = "locked" /\ pc'[c] # "locked") =>
              /\ pc'[c] = "idle"
              /\ IF call[c].arg.key \in DOMAIN MKernelFastCache
                 THEN call'[c].Res = MKernelFastCache[call[c].arg.key]
                 ELSE call'[c].Res = AbsentVal
              /\ call'[c].Res \in KernelFastCacheValT \cup {AbsentVal}
              /\ UNCHANGED <<cacheVars, entryVars, numEntries, lifeVars>>]_vars

\* A lookup in the empty fast cache has returned the all-null value while
\* the program cache holds an entry.
C15_Witness ==
    /\ pc["c1"] = "idle"
    /\ call["c1"].op = "tryToGetKernelFast"
    /\ call["c1"].arg.key \notin DOMAIN MKernelFastCache
    /\ call["c1"].Res = AbsentVal
    /\ Cache # EmptyMap

\* Entry e was constructed by the step: it did not exist before, and it is
\* Initial with a null handle and no error.
FreshInitial(e) ==
    /\ e \notin 1..numEntries
    /\ e \in 1..numEntries'
    /\ e \notin destroyed'
    /\ State'[e] = BS_Initial /\ Val'[e] = NullPtr
    /\ ErrorMsg'[e] = "" /\ ErrorCode'[e] = UR_RESULT_SUCCESS

\* C16: when reset() completes, the program cache, the common-key multimap,
\* the kernel cache and the fast cache are all empty; a getOrInsertProgram
\* or getOrInsertKernel that finds its cache empty, as reset left it,
\* reports inserted = true and returns a fresh Initial entry.
C16_ResetClearsEverything ==
    [][/\ \A a \in Actors :
             (pc[a] = "reset_fast" /\ pc'[a] # "reset_fast") => AllCachesEmpty'
       /\ \A c \in Clients :
             (pc[c] = "locked" /\ pc'[c] # "locked") =>
                 /\ (call[c].op = "getOrInsertProgram" /\ Cache = EmptyMap) =>
                        call'[c].DidInsert /\ FreshInitial(call'[c].It)
                 /\ (call[c].op = "getOrInsertKernel" /\ MKernelsPerProgramCache = EmptyMap) =>
                        call'[c].DidInsert /\ FreshInitial(call'[c].It)]_vars

\* A reset emptied caches that held entries, and the getOrInsertProgram
\* that followed it inserted a new entry.
C16_Witness ==
    /\ destroyed # {}
    /\ pc["c1"] = "idle"
    /\ call["c1"].op = "getOrInsertProgram"
    /\ call["c1"].DidInsert
    /\ call["c1"].It \notin destroyed
    /\ call["c1"].It > 1
    /\ DOMAIN Cache = {call["c1"].arg.key}
    /\ MKernelsPerProgramCache = EmptyMap
    /\ MKernelFastCache = EmptyMap

\* Actor a is inside reset(), past its three lock_guards.
Clearing(a) == pc[a] \in {"reset_programs", "reset_kernels", "reset_fast"}
\* ... and between the clearing of the first structure and of the last.
MidClear(a) == pc[a] \in {"reset_kernels", "reset_fast"}

\* While a reset clears, it owns the three mutexes and no other thread is
\* inside a structural operation, where it could observe or change a cache.
ResetExcludesOperations ==
    \A a \in Actors :
        Clearing(a) =>
            /\ \A m \in Mutexes : mutex[m] = a
            /\ \A b \in Actors \ {a} :
                  pc[b] \notin {"locked", "emplaced", "reset_L2", "reset_L3",
                              "reset_programs", "reset_kernels", "reset_fast"}

\* C17: reset holds the three structural locks together while it clears: no
\* getOrInsertProgram, insertBuiltProgram, getOrInsertKernel,
\* tryToGetKernelFast or saveKernel is inside its critical section, and no
\* cache changes by another thread's step, between the clearing of the first
\* structure and the clearing of the last.
C17_ResetIsAtomic ==
    [][/\ ResetExcludesOperations'
       /\ \A a \in Actors :
             (MidClear(a) /\ pc'[a] = pc[a]) =>
                 UNCHANGED <<cacheVars, numEntries, issued>>]_vars

\* One client's reset has emptied the program and kernel caches and not yet
\* the fast cache, and the other client's reset waits for the first lock.
C17_Witness ==
    /\ pc["c2"] = "reset_fast"
    /\ pc["c1"] = "reset"
    /\ destroyed # {}
    /\ Cache = EmptyMap
    /\ MKernelFastCache # EmptyMap

\* Waiter w leaves waitUntilTransition's caller with what its own entry
\* shows: it returns that entry when it saw Done, and raises the error
\* recorded on that entry when it saw Failed.
ObservesOwnOutcome(w) ==
    LET e == BuildResult[w]
    IN  /\ NewState[w] = BS_Done => outcome'[w] = Returned(e, "waiter")
        /\ NewState[w] = BS_Failed =>
              /\ outcome'[w].kind = "raised"
              /\ outcome'[w].on = e
              /\ outcome'[w].ex.msg = ErrorMsg[e]
              /\ outcome'[w].ex.code = ErrorCode[e]

\* C18 as stated: when a reset removed an entry from the caches while its
\* build was in flight, the builder's outcome is published on that entry,
\* and a thread that waited on it and saw Done or Failed returns that entry
\* or raises the error recorded on it.
C18_ResetKeepsInFlightBuild ==
    [][\A w \in Threads :
          ( /\ pc[w] = "woke" /\ pc'[w] # "woke"
            /\ BuildResult[w] \notin CachedEntries
            /\ NewState[w] \in {BS_Done, BS_Failed} )
          => /\ State[BuildResult[w]] = NewState[w]
             /\ ObservesOwnOutcome(w)]_vars

\* Thread t is blocked in waitUntilTransition.
BlockedWaiting(t) == pc[t] = "wait"

\* C19: a thread that is executing the build function, or is blocked
\* waiting for an entry's transition, owns none of the three structural
\* mutexes, so the mutex another thread's cache operation needs is never
\* held for the duration of a build.
C19_NoLockAcrossBuild ==
    \A t \in Threads :
        (ExecutingBuild(t) \/ BlockedWaiting(t)) =>
            \A m \in Mutexes : mutex[m] # t

\* While one thread executes the build function for a program key, another
\* thread is inside getOrInsertProgram for a different key.
C19_Witness ==
    \E t1, t2 \in Threads :
        /\ ExecutingBuild(t1)
        /\ target[t1].kind = "program"
        /\ target[t2].kind = "program"
        /\ target[t1] # target[t2]
        /\ pc[t2] = "emplaced"
        /\ mutex[MProgramCacheMutex] = t2

\* The entries the step destroys.
Dead == destroyed' \ destroyed

\* The step calls the adapter's release once for each entry it destroys
\* that holds a handle, and not at all for the others.
ReleasesOncePerHandle ==
    /\ \A h \in Handles :
          released'[h] = released[h] + Cardinality({e \in Dead : Val[e] = h})
    /\ (\A e \in Dead : Val[e] = NullPtr) => UNCHANGED <<released, reported>>

\* Every entry that no pointer reaches after the step has been destroyed.
DestructionCompletes ==
    \A e \in 1..numEntries' : e \in Referenced' \/ e \in destroyed'

\* A step in which a release call failed raises nothing of its own: a
\* getOrBuild call that ends by raising in that step raises what its build
\* threw or what its entry recorded.
ReleaseFailureNotRaised ==
    (reported' /\ ~reported) =>
        /\ Dead # {}
        /\ \A t \in Threads :
              (outcome'[t] # outcome[t] /\ outcome'[t].kind = "raised") =>
                  outcome'[t].ex \in
                      {Ex[t],
                       IF BuildResult[t] # NullPtr
                       THEN WaiterError(ErrorMsg[BuildResult[t]], ErrorCode[BuildResult[t]])
                       ELSE Ex[t]}

\* C20: destroying an entry whose handle is not null calls the adapter's
\* release for that handle exactly once, destroying one whose handle is null
\* calls it zero times, and a failed release call is not raised and does not
\* keep any entry from being destroyed.
C20_HandleReleaseOnDestruction ==
    [][ReleasesOncePerHandle /\ DestructionCompletes /\ ReleaseFailureNotRaised]_vars

\* Two entries were destroyed, one with a handle and one without: one
\* release call was made, and it failed.
C20_Witness ==
    /\ reported
    /\ Cardinality(destroyed) = 2
    /\ \E h \in Handles :
          /\ released[h] = 1
          /\ \A g \in Handles \ {h} : released[g] = 0

\* ------------------------------------------- ownership, waiting, recovery
\* The entries that were constructed and not destroyed.
Live == {e \in 1..numEntries : e \notin destroyed}

\* C21 as stated: no native handle is the value of two live entries at once,
\* and the adapter's release is called at most once for any one handle.
C21_ExclusiveHandleOwnership ==
    /\ \A e1, e2 \in Live :
          (e1 # e2 /\ Val[e1] # NullPtr) => Val[e1] # Val[e2]
    /\ \A h \in Handles : released[h] <= 1

\* The getOrBuild call of thread t for a program key has returned entry e,
\* which is the key's entry in the program cache and is Done: what
\* getOrInsertProgram would return for the key is e with DidInsert false.
BuiltAndCached(t, e) ==
    /\ pc[t] = "done"
    /\ target[t].kind = "program"
    /\ outcome[t] \in {Returned(e, "builder"), Returned(e, "waiter")}
    /\ target[t].key \in DOMAIN Cache
    /\ Cache[target[t].key] = e
    /\ State[e] = BS_Done
    /\ Val[e] # NullPtr

\* The step is a reset: it empties a program cache that held something.
ClearsPrograms == Cache # EmptyMap /\ Cache' = EmptyMap

\* A getOrBuild call for the same key that fetches while BuiltAndCached(t, e)
\* gets e without inserting, loses its claim on it, and returns it.
LaterCallReturnsIt(t, e, u) ==
    /\ (pc[u] = "fetch" /\ pc'[u] # "fetch") =>
           /\ BuildResult'[u] = e
           /\ numEntries' = numEntries
    /\ (pc[u] = "cas" /\ pc'[u] # "cas" /\ BuildResult[u] = e) => pc'[u] = "wait"
    /\ (pc[u] = "woke" /\ pc'[u] # "woke" /\ BuildResult[u] = e) =>
           outcome'[u] = Returned(e, "waiter")
    /\ InBuildBody(u) => BuildResult[u] # e

AttemptsExhausted(t) == AttemptCounter[t] + 1 >= MaxAttempts

\* The builder recorded an error on the entry.
ErrorRecorded(e) == ErrorMsg[e] # "" \/ ErrorCode[e] # UR_RESULT_SUCCESS

\* C23 as stated: a waiter returns the entry when it observed Done; it
\* raises when it observed Failed or its attempt bound of 2 is exhausted,
\* the entry's recorded error if one was recorded, a generic error
\* otherwise; it fetches again only when it observed Initial with the bound
\* not exhausted, so no waiter goes round the loop more than once.
C23_WaiterOutcomes ==
    [][\A t \in Threads :
          (pc[t] = "woke" /\ pc'[t] # "woke") =>
              LET e == BuildResult[t]
              IN  /\ NewState[t] = BS_Done => outcome'[t] = Returned(e, "waiter")
                  /\ (NewState[t] # BS_Done /\ (NewState[t] = BS_Failed \/ AttemptsExhausted(t))) =>
                        /\ outcome'[t].kind = "raised"
                        /\ IF ErrorRecorded(e)
                           THEN /\ outcome'[t].ex.msg = ErrorMsg[e]
                                /\ outcome'[t].ex.code = ErrorCode[e]
                           ELSE outcome'[t].ex = DefaultException
                  /\ pc'[t] = "fetch" =>
                        /\ NewState[t] = BS_Initial
                        /\ ~AttemptsExhausted(t)
                        /\ AttemptCounter[t] = 0]_vars


\* ---------------------------------------------------------------- C24
\* A thread is evaluating the predicate of waitUntilTransition.
InPredicate(t) == pc[t] \in PredicateSteps

\* The wait of thread t ends in this step: waitUntilTransition returns To.
WaitReturns(t) == InPredicate(t) /\ pc'[t] = "woke"

\* C24: the state waitUntilTransition(BS_InProgress) returns is never
\* BS_InProgress, whatever claims (compare-and-swap without the mutex) and
\* publishes (stores under the mutex) other threads make on the entry; and
\* it is the state the entry has when the wait ends, the waiter owning the
\* entry's mutex.
C24_AwaitTransitionResult ==
    [][\A t \in Threads :
          WaitReturns(t) =>
             /\ NewState'[t] # BS_InProgress
             /\ NewState'[t] = State[BuildResult[t]]]_vars

\* A wait has returned BS_Initial, and the thread that published it has
\* called again and claimed the same entry since: the entry is BS_InProgress
\* while the waiter holds the BS_Initial that was returned to it.
C24_Witness ==
    \E t \in Threads, u \in Threads :
       /\ pc[t] = "woke"
       /\ NewState[t] = BS_Initial
       /\ u # t
       /\ pc[u] = "build"
       /\ BuildResult[u] = BuildResult[t]
       /\ State[BuildResult[t]] = BS_InProgress

\* ---------------------------------------------------------------- C25
\* Thread t is inside waitUntilTransition.
InWait(t) == pc[t] \in {"wait", "asleep"} \cup PredicateSteps

\* Some thread holds entry e claimed and has not published yet.
HasBuilder(e) == \E u \in Threads : InBuildBody(u) /\ BuildResult[u] = e

\* C25: under fair scheduling with build functions that end, a thread blocked
\* on an entry's condition variable is blocked only while a builder of that
\* entry has not published, and every thread inside waitUntilTransition gets
\* out of it.
C25_NoLostWakeUp ==
    /\ [](\A t \in Threads :
             pc[t] = "asleep" =>
                /\ State[BuildResult[t]] = BS_InProgress
                /\ HasBuilder(BuildResult[t]))
    /\ \A t \in TwoThreads : InWait(t) ~> (pc[t] = "woke")

\* A thread is blocked on the condition variable of an entry whose builder
\* has caught a failure and is about to publish.
C25_Witness ==
    \E t \in Threads, u \in Threads :
       /\ pc[t] = "asleep"
       /\ BuildResult[u] = BuildResult[t]
       /\ pc[u] \in {"failed", "reinit"}

\* ---------------------------------------------------------------- C26
\* Thread t's wait returned BS_Initial on an entry with a recorded error: a
\* build on the entry failed with resource exhaustion (any other failure that
\* records an error publishes BS_Failed, and catch (...) records none).
WokenByExhaustion(t) ==
    /\ pc[t] = "woke"
    /\ NewState[t] = BS_Initial
    /\ ErrorRecorded(BuildResult[t])

\* C26: on a resource-exhaustion failure the builder's reset() leaves all
\* three caches empty while the failed entry is still BS_InProgress, and only
\* then is BS_Initial published on it, the entry being out of the cache; a
\* waiter woken with BS_Initial by that failure holds an entry that is not in
\* the cache, no removed entry comes back, and every fetch returns an entry
\* that is in the cache: the waiter's next fetch returns another entry.
C26_ResetPrecedesInitialPublish ==
    [][/\ \A t \in Threads :
             /\ (pc[t] = "reset" /\ pc'[t] = "reinit") =>
                   /\ AllCachesEmpty'
                   /\ State'[BuildResult[t]] = BS_InProgress
             /\ (pc[t] = "reinit" /\ pc'[t] # "reinit") =>
                   /\ BuildResult[t] \notin CachedEntries
                   /\ State[BuildResult[t]] = BS_InProgress
                   /\ State'[BuildResult[t]] = BS_Initial
             /\ WokenByExhaustion(t) => BuildResult[t] \notin CachedEntries
             /\ (pc[t] = "fetch" /\ pc'[t] = "cas") =>
                   BuildResult'[t] \in CachedEntries'
       /\ \A e \in 1..numEntries :
             e \notin CachedEntries => e \notin CachedEntries']_vars

\* A thread waited, was woken with BS_Initial by a resource-exhaustion
\* failure (nothing else was thrown so far), and has fetched again.
C26_Witness ==
    \E t \in Threads :
       /\ pc[t] = "cas"
       /\ waited[t]
       /\ nbuilds[t] = 0
       /\ nfetches[t] = 2
       /\ AttemptCounter[t] = 1
       /\ "resource exhaustion" \in happened
       /\ "other exception" \notin happened
       /\ BuildResult[t] \in CachedEntries

\* ---------------------------------------------------------------- C27
\* Thread t wins the claim BS_Initial -> BS_InProgress in this step.
WinsClaim(t) == pc[t] = "cas" /\ pc'[t] = "build"

\* C27 as stated: no thread wins the claim on an entry that a reset has
\* removed from the cache; in particular not a thread that fetched the entry
\* before the reset and claims after the failed builder published
\* BS_Initial on it.
C27_NoBuildOnInvalidatedEntry ==
    [][\A t \in Threads :
          WinsClaim(t) => BuildResult[t] \in CachedEntries]_vars

\* ---------------------------------------------------------------- C28
\* Thread t publishes on its entry in this step: updateAndNotify takes the
\* entry out of BS_InProgress.
Publishes(t) ==
    /\ InBuildBody(t)
    /\ State[BuildResult[t]] = BS_InProgress
    /\ State'[BuildResult[t]] # BS_InProgress

\* Thread u is blocked on the condition variable of entry e.
BlockedOn(u, e) == pc[u] = "asleep" /\ BuildResult[u] = e

\* C28: a publish on entry E changes the state of no other entry, wakes the
\* threads blocked on E and moves no other thread; and no wait returns on an
\* entry whose state is BS_InProgress.
C28_PerEntrySignalling ==
    [][\A t \in Threads :
          /\ Publishes(t) =>
                /\ \A e \in Entries \ {BuildResult[t]} : State'[e] = State[e]
                /\ \A u \in Threads \ {t} :
                      /\ BlockedOn(u, BuildResult[t]) => pc'[u] = "wait"
                      /\ ~BlockedOn(u, BuildResult[t]) => pc'[u] = pc[u]
          /\ (InWait(t) /\ State[BuildResult[t]] = BS_InProgress) =>
                pc'[t] # "woke"]_vars

\* A thread has published on its entry and ended its call while another
\* thread is blocked on another entry, which is still BS_InProgress.
C28_Witness ==
    \E t \in Threads, u \in Threads :
       /\ pc[t] = "done"
       /\ outcome[t].role = "builder"
       /\ pc[u] = "asleep"
       /\ BuildResult[u] # outcome[t].on
       /\ State[outcome[t].on] # BS_InProgress
       /\ State[BuildResult[u]] = BS_InProgress

\* ---------------------------------------------------------------- C29
\* The entries some thread holds: as the builder or a waiter of its call
\* (Res.first), or as the pointer getOrBuild returned to it.
HeldByThreads ==
    ({BuildResult[t] : t \in Threads} \cup {outcome[t].entry : t \in Threads})
       \ {NullPtr}

\* C29 as stated: no step, a reset included, destroys an entry a thread
\* holds or releases the native handle of such an entry; the handle of an
\* entry is released only when its last holder has dropped it.
C29_HandleOutlivesUsers ==
    [][/\ HeldByThreads' \cap destroyed' = {}
       /\ \A h \in Handles :
             released'[h] > released[h] =>
                \A e \in HeldByThreads' : Val'[e] # h]_vars

\* ---------------------------------------------------------------- C30
\* Thread t's call has fetched an entry that is BS_Failed and has not ended.
HoldsFailed(t) ==
    /\ pc[t] \in {"cas", "wait", "woke"}
    /\ State[BuildResult[t]] = BS_Failed

\* C30 as stated: an entry that is BS_Failed and stays in the cache stays
\* BS_Failed; a call that fetched it never runs the build function and never
\* fetches again, and ends by raising the error recorded on the entry, its
\* message and its code.
C30_FailureIsSticky ==
    [][/\ \A e \in Entries :
             (State[e] = BS_Failed /\ e \in CachedEntries') => State'[e] = BS_Failed
       /\ \A t \in Threads :
             (HoldsFailed(t) /\ pc'[t] # pc[t]) =>
                /\ pc'[t] \in {"wait", "woke", "done"}
                /\ nbuilds'[t] = nbuilds[t]
                /\ pc'[t] = "done" =>
                      /\ outcome'[t].kind = "raised"
                      /\ outcome'[t].ex.msg = ErrorMsg[BuildResult[t]]
                      /\ outcome'[t].ex.code = ErrorCode[BuildResult[t]]]_vars

\* ---------------------------------------------------------------- C31
\* C31: an entry whose state is BS_Done keeps its state and its value in
\* every step after which it still exists, whatever getOrBuild,
\* insertBuiltProgram, a lookup or a reset does; a reset takes it out of the
\* maps and leaves it as it is.
C31_DoneIsTerminal ==
    [][\A e \in Entries :
          (State[e] = BS_Done /\ e \notin destroyed') =>
             /\ State'[e] = BS_Done
             /\ Val'[e] = Val[e]]_vars

\* After a reset an entry that is BS_Done with its value is out of the maps
\* and still exists, its caller holding it, while a thread runs a build on
\* another entry.
C31_Witness ==
    \E e \in Live, t \in Threads :
       /\ State[e] = BS_Done
       /\ Val[e] # NullPtr
       /\ e \notin CachedEntries
       /\ "reset" \in happened
       /\ ExecutingBuild(t)

\* ---------------------------------------------------------------- C32
\* The entry the cache holds for target tg, nullptr when it holds none.
Cached(tg) ==
    CASE tg.kind = "program" ->
            IF tg.key \in DOMAIN Cache THEN Cache[tg.key] ELSE NullPtr
      [] tg.kind = "kernel" ->
            IF /\ tg.prog \in DOMAIN MKernelsPerProgramCache
               /\ tg.name \in DOMAIN MKernelsPerProgramCache[tg.prog]
            THEN MKernelsPerProgramCache[tg.prog][tg.name] ELSE NullPtr
      [] OTHER -> NullPtr

\* The build function of thread b ends in this step with a failure that is
\* not a sycl::exception.
ThrowsOther(b) == ExecutingBuild(b) /\ outcome'[b].ex = OtherException

Held(a) == {m \in Mutexes : mutex[m] = a}

\* The structural mutex the next statement of actor a locks: the cache
\* operation's, or reset's next lock_guard.
WantedMutexes(a) ==
    CASE pc[a] = "fetch" -> {OpMutex(target[a].kind)}
      [] pc[a] = "reset" -> {MProgramCacheMutex}
      [] pc[a] = "reset_L2" -> {MKernelsPerProgramCacheMutex}
      [] pc[a] = "reset_L3" -> {MKernelFastCacheMutex}
      [] OTHER -> {}

\* The entry whose mutex the next statement of actor a locks: a waiter's
\* unique_lock in waitUntilTransition, a builder's lock_guard in
\* updateAndNotify; nullptr when it locks none.
WantedEntry(a) ==
    IF a \in Threads /\ pc[a] \in {"wait", "build", "failed", "reinit"}
    THEN BuildResult[a] ELSE NullPtr

\* Actor a cannot go on before actor b gives a mutex back.
WaitsFor(a, b) ==
    \/ \E m \in WantedMutexes(a) : mutex[m] = b
    \/ /\ b \in Threads
       /\ WantedEntry(a) # NullPtr
       /\ pc[b] \in PredicateSteps
       /\ BuildResult[b] = WantedEntry(a)

\* Every actor of S waits for a mutex that an actor of S owns.
Deadlocked(S) == S # {} /\ \A a \in S : \E b \in S : WaitsFor(a, b)

\* The actors that wait for a mutex somebody owns.
Blocked == {a \in Actors : \E b \in Actors : WaitsFor(a, b)}

MutexRank(m) ==
    CASE m = MProgramCacheMutex -> 1
      [] m = MKernelsPerProgramCacheMutex -> 2
      [] m = MKernelFastCacheMutex -> 3

\* C33: in every reachable state no set of blocked actors is such that each
\* of them waits for a structural or entry mutex owned by one of them, and an
\* actor that owns or is about to lock an entry's mutex owns no structural
\* mutex; in every step that locks a structural mutex the actor does not own
\* an entry's mutex, and it owns no structural mutex at all unless it is
\* inside reset, where it owns exactly the mutexes that come before the one
\* it locks in the order program, kernel, fast.
C33_DeadlockFreedom ==
    /\ [](/\ \A S \in SUBSET Blocked : ~Deadlocked(S)
          /\ \A t \in Threads :
                (WantedEntry(t) # NullPtr \/ pc[t] \in PredicateSteps) =>
                    Held(t) = {})
    /\ [][\A a \in Actors : \A m \in Mutexes :
             (mutex[m] # a /\ mutex'[m] = a) =>
                /\ ~(a \in Threads /\ pc[a] \in PredicateSteps)
                /\ IF pc[a] \in {"reset", "reset_L2", "reset_L3"}
                   THEN Held(a) = {n \in Mutexes : MutexRank(n) < MutexRank(m)}
                   ELSE Held(a) = {}]_vars

\* A chain of blocked actors that is no cycle: a thread inside the reset of
\* its recovery owns the program and kernel mutexes and waits for the fast
\* cache's, which a client's fast-cache operation owns, while the other
\* thread waits for the program mutex to make its lookup.
C33_Witness ==
    \E r \in Threads, u \in Threads, c \in Clients :
       /\ pc[r] = "reset_L3"
       /\ Held(r) = {MProgramCacheMutex, MKernelsPerProgramCacheMutex}
       /\ WaitsFor(r, c)
       /\ pc[c] = "locked"
       /\ pc[u] = "fetch"
       /\ WaitsFor(u, r)

\* ---------------------------------------------------------------- C34
\* The kernel handles that are the value of an entry of the kernel cache.
CachedKernels ==
    UNION {{Val[MKernelsPerProgramCache[p][n]] :
               n \in DOMAIN MKernelsPerProgramCache[p]} :
                  p \in DOMAIN MKernelsPerProgramCache}

\* C34 as stated: when only kernel handles obtained from a successful
\* getOrBuild on the kernel cache are saved, every kernel handle stored in
\* the fast cache is the value of an entry that is in the kernel cache.
C34_FastCacheBackedByKernelCache ==
    \A k \in DOMAIN MKernelFastCache :
        MKernelFastCache[k].kernel \in CachedKernels

\* ---------------------------------------------------------------- C35
\* Client c is inside operation op, under the fast cache's mutex, and
\* executes it in this step.
Executes(c, op) == pc[c] = "locked" /\ call[c].op = op /\ pc'[c] = "idle"

\* C35: a saveKernel on a key that is in the fast cache leaves the fast cache
\* as it is, and on an absent key it adds the mapping and nothing else, so
\* after either the key is present and the same save again changes nothing;
\* a stored value never changes while its key stays, a key leaves the fast
\* cache only in the last statement of a reset, and tryToGetKernelFast
\* returns the stored value.
C35_FastCachePutKeepsFirst ==
    [][/\ \A c \in Clients :
             /\ Executes(c, "saveKernel") =>
                   /\ call[c].arg.key \in DOMAIN MKernelFastCache =>
                         MKernelFastCache' = MKernelFastCache
                   /\ call[c].arg.key \notin DOMAIN MKernelFastCache =>
                         MKernelFastCache' =
                            MKernelFastCache @@ (call[c].arg.key :> call[c].arg.val)
                   /\ call[c].arg.key \in DOMAIN MKernelFastCache'
             /\ (Executes(c, "tryToGetKernelFast")
                   /\ call[c].arg.key \in DOMAIN MKernelFastCache) =>
                   call'[c].Res = MKernelFastCache[call[c].arg.key]
       /\ \A k \in DOMAIN MKernelFastCache :
             IF k \in DOMAIN MKernelFastCache'
             THEN MKernelFastCache'[k] = MKernelFastCache[k]
             ELSE \E a \in Actors : pc[a] = "reset_fast"]_vars

\* One client has saved a value for a key and the fast cache holds it; the
\* other client is inside saveKernel for the same key with another value.
C35_Witness ==
    \E c1, c2 \in Clients :
       /\ pc[c1] = "idle" /\ call[c1].op = "saveKernel"
       /\ pc[c2] = "locked" /\ call[c2].op = "saveKernel"
       /\ call[c2].arg.key = call[c1].arg.key
       /\ call[c2].arg.val # call[c1].arg.val
       /\ call[c1].arg.key \in DOMAIN MKernelFastCache
       /\ MKernelFastCache[call[c1].arg.key] = call[c1].arg.val

\* ---------------------------------------------------------------- C36
\* The pairs the multimap has to hold: one for each key of the program cache.
ExpectedPairs == {<<CommonKey(K), K>> : K \in DOMAIN Cache}

\* C36: in every state observable under the program-cache lock the multimap
\* holds each pair (CommonKey(K), K) with K in the program cache exactly
\* once and no other pair, so it has as many pairs as the program cache has
\* entries.
C36_MultimapExactness ==
    ObservableUnderProgramLock =>
        /\ BagToSet(KeyMap) = ExpectedPairs
        /\ \A P \in ExpectedPairs : CopiesIn(P, KeyMap) = 1
        /\ BagCardinality(KeyMap) = Cardinality(DOMAIN Cache)

\* Both keys are in the program cache, and the last call of each client was
\* on a key that was there already: a getOrInsertProgram that fetched and an
\* insertBuiltProgram that inserted nothing.
C36_Witness ==
    /\ Cardinality(DOMAIN Cache) = Cardinality(ProgramCacheKeyT)
    /\ BagCardinality(KeyMap) = Cardinality(ProgramCacheKeyT)
    /\ mutex[MProgramCacheMutex] = NoOwner
    /\ \E c1, c2 \in Clients :
          /\ pc[c1] = "idle" /\ call[c1].op = "insertBuiltProgram"
          /\ ~call[c1].DidInsert
          /\ pc[c2] = "idle" /\ call[c2].op = "getOrInsertProgram"
          /\ ~call[c2].DidInsert
          /\ call[c2].It = Cache[call[c2].arg.key]

====
